---- MODULE Spec2Model ----
(***************************************************************************)
(* Model of the MikroTik DNS client of external-dns-provider-mikrotik      *)
(* (internal/mikrotik/client.go): the remote static-DNS store, the create  *)
(* pipeline and the delete reconciliation loop guarded by deleteMutex.     *)
(*                                                                         *)
(* A Go string that takes part in target handling is modelled as the       *)
(* sequence of its whitespace-separated fields: "10 smtp" is <<"10",       *)
(* "smtp">>, "1.2.3.4" is <<"1.2.3.4">> and "" is <<>>.  Equality of such  *)
(* sequences is string equality, joining with a blank is concatenation.    *)
(***************************************************************************)
EXTENDS Integers, Sequences, FiniteSets, TLC

\* ---------------------------------------------------------------- bounds
\* capacity of the remote store (number of records, and of ids)
MaxStore == 3
\* number of records in the initial store
MaxInit == 2
\* number of goroutines calling into the one client instance
NumThreads == 2
\* number of doRequest calls followed one by one
MaxCalls == 2

MaxId == MaxStore
Threads == 1..NumThreads
\* the client instances that share the store
Clients == {1, 2}
Ids == 1..MaxId

\* ------------------------------------------------------------- constants
\* MikrotikDefaults.DefaultComment (client.go:23); the value is immaterial
DefaultComment == "Managed By ExternalDNS"
\* query parameter "type" of GetDNSRecordsByName (client.go:162)
SupportedTypes == {"A", "AAAA", "CNAME", "TXT", "MX", "SRV", "NS"}

EmptyStr == <<>>

\* The zero value of the DNSRecord struct.  Read is not a field of the
\* struct: it says which remote call of the running operation the client
\* got this copy of the record from (0: from none), and so where the id in
\* it was read.
BlankRecord ==
  [ID |-> 0, Name |-> "", Type |-> "", Address |-> EmptyStr, CName |-> EmptyStr,
   Text |-> EmptyStr, MXExchange |-> EmptyStr, MXPreference |-> EmptyStr,
   SrvTarget |-> EmptyStr, SrvPort |-> EmptyStr, SrvPriority |-> EmptyStr,
   SrvWeight |-> EmptyStr, NS |-> EmptyStr, TTL |-> <<>>, Comment |-> "",
   Disabled |-> "", AddressList |-> "", Read |-> 0]

\* the zero value of endpoint.Endpoint (only the fields the client reads)
NoEndpoint ==
  [DNSName |-> "", RecordType |-> "", Targets |-> <<>>, RecordTTL |-> 0, Comment |-> "",
   Disabled |-> "", AddressList |-> ""]

\* a record without its id: what two records have in common when they are
\* the same record before and after a renumbering
Content(r) == [r EXCEPT !.ID = 0, !.Read = 0]

\* ------------------------------------------------------- pure functions
\* getRecordTarget (client.go:394-412)
getRecordTarget(record) ==
  CASE record.Type \in {"A", "AAAA"} -> record.Address
    [] record.Type = "CNAME" -> record.CName
    [] record.Type = "TXT" -> record.Text
    [] record.Type = "MX" -> record.MXExchange
    [] record.Type = "SRV" -> record.SrvTarget
    [] record.Type = "NS" -> record.NS
    [] OTHER -> EmptyStr

\* a faulty recordsMatch: it identifies a record by its id, which does not
\* survive a renumbering
recordsMatchByID(record1, record2) ==
  /\ record1.Name = record2.Name /\ record1.Type = record2.Type
  /\ record1.ID = record2.ID

\* a faulty recordsMatch: two MX records match when their exchanges are the
\* same, whatever their preferences
recordsMatchExchangeOnly(record1, record2) ==
  IF record1.Name # record2.Name \/ record1.Type # record2.Type THEN FALSE
  ELSE CASE record1.Type \in {"A", "AAAA"} -> record1.Address = record2.Address
         [] record1.Type = "CNAME" -> record1.CName = record2.CName
         [] record1.Type = "TXT" -> record1.Text = record2.Text
         [] record1.Type = "MX" -> record1.MXExchange = record2.MXExchange
         [] record1.Type = "SRV" -> /\ record1.SrvTarget = record2.SrvTarget
                                    /\ record1.SrvPort = record2.SrvPort
                                    /\ record1.SrvPriority = record2.SrvPriority
                                    /\ record1.SrvWeight = record2.SrvWeight
         [] record1.Type = "NS" -> record1.NS = record2.NS
         [] OTHER -> record1.Comment = record2.Comment

\* recordsMatch (client.go:298-327)
recordsMatch(record1, record2) ==
  IF record1.Name # record2.Name \/ record1.Type # record2.Type THEN FALSE
  ELSE CASE record1.Type \in {"A", "AAAA"} -> record1.Address = record2.Address
         [] record1.Type = "CNAME" -> record1.CName = record2.CName
         [] record1.Type = "TXT" -> record1.Text = record2.Text
         [] record1.Type = "MX" -> /\ record1.MXExchange = record2.MXExchange
                                   /\ record1.MXPreference = record2.MXPreference
         [] record1.Type = "SRV" -> /\ record1.SrvTarget = record2.SrvTarget
                                    /\ record1.SrvPort = record2.SrvPort
                                    /\ record1.SrvPriority = record2.SrvPriority
                                    /\ record1.SrvWeight = record2.SrvWeight
         [] record1.Type = "NS" -> record1.NS = record2.NS
         [] OTHER -> record1.Comment = record2.Comment

\* The target string of a record as the device tests decode it
\* (test/real-device/common_test.go:267-287): MX is "<preference> <exchange>",
\* SRV is "<priority> <weight> <port> <target>".
decodedTarget(record) ==
  CASE record.Type \in {"A", "AAAA"} -> record.Address
    [] record.Type = "CNAME" -> record.CName
    [] record.Type = "TXT" -> record.Text
    [] record.Type = "MX" -> record.MXPreference \o record.MXExchange
    [] record.Type = "SRV" -> record.SrvPriority \o record.SrvWeight
                                \o record.SrvPort \o record.SrvTarget
    [] record.Type = "NS" -> record.NS
    [] OTHER -> EmptyStr

\* the seconds in one unit of a TTL string
UnitSeconds(unit) ==
  CASE unit = "d" -> 86400 [] unit = "h" -> 3600 [] unit = "m" -> 60 [] OTHER -> 1

\* A TTL string is modelled as the pair of its number and its unit suffix:
\* "1d" is <<1, "d">>, "90s" is <<90, "s">>, and "" is <<>>.
\*
\* a faulty TTL encoding: the largest unit that fits, the rest dropped
encodeTTLTruncating(seconds) ==
  IF seconds >= 86400 THEN <<seconds \div 86400, "d">>
  ELSE IF seconds >= 3600 THEN <<seconds \div 3600, "h">>
  ELSE IF seconds >= 60 THEN <<seconds \div 60, "m">>
  ELSE <<seconds, "s">>

\* the TTL of an endpoint as the string of the record: days, hours or
\* minutes when the seconds are a whole number of them, else seconds
encodeTTL(seconds) ==
  IF seconds % 86400 = 0 THEN <<seconds \div 86400, "d">>
  ELSE IF seconds % 3600 = 0 THEN <<seconds \div 3600, "h">>
  ELSE IF seconds % 60 = 0 THEN <<seconds \div 60, "m">>
  ELSE <<seconds, "s">>

\* the TTL string of a record as seconds
decodeTTL(ttl) == IF ttl = <<>> THEN 0 ELSE ttl[1] * UnitSeconds(ttl[2])

\* NewDNSRecord: whether one target of an endpoint of this kind converts.
\* MX needs "<preference> <exchange>", SRV "<priority> <weight> <port> <target>";
\* TXT is free text; the other kinds hold one host or address.
targetConverts(type, target) ==
  CASE type = "MX" -> Len(target) = 2
    [] type = "SRV" -> Len(target) = 4
    [] type = "TXT" -> Len(target) >= 1
    [] type \in {"A", "AAAA", "CNAME", "NS"} -> Len(target) = 1
    [] OTHER -> FALSE

\* NewDNSRecord: the record encoding one target of an endpoint; comment,
\* disabled and address-list are the caller's provider-specific properties,
\* and the TTL string is set for an endpoint that has a TTL.
NewDNSRecord(ep, target) ==
  LET base == [BlankRecord EXCEPT !.Name = ep.DNSName, !.Type = ep.RecordType,
                                  !.TTL = IF ep.RecordTTL > 0 THEN encodeTTL(ep.RecordTTL)
                                          ELSE <<>>,
                                  !.Comment = ep.Comment, !.Disabled = ep.Disabled,
                                  !.AddressList = ep.AddressList]
  IN CASE ep.RecordType \in {"A", "AAAA"} -> [base EXCEPT !.Address = target]
       [] ep.RecordType = "CNAME" -> [base EXCEPT !.CName = target]
       [] ep.RecordType = "TXT" -> [base EXCEPT !.Text = target]
       [] ep.RecordType = "MX" -> [base EXCEPT !.MXPreference = <<target[1]>>,
                                               !.MXExchange = <<target[2]>>]
       [] ep.RecordType = "SRV" -> [base EXCEPT !.SrvPriority = <<target[1]>>,
                                                !.SrvWeight = <<target[2]>>,
                                                !.SrvPort = <<target[3]>>,
                                                !.SrvTarget = <<target[4]>>]
       [] ep.RecordType = "NS" -> [base EXCEPT !.NS = target]
       [] OTHER -> base

\* NewDNSRecords: does the conversion of the endpoint succeed
convertsOk(ep) ==
  /\ ep.DNSName # ""
  /\ Len(ep.Targets) > 0
  /\ \A k \in 1..Len(ep.Targets) : targetConverts(ep.RecordType, ep.Targets[k])

\* NewDNSRecords: one record per target, in the order of the targets
NewDNSRecords(ep) == [k \in 1..Len(ep.Targets) |-> NewDNSRecord(ep, ep.Targets[k])]

\* a faulty NewMikrotikClient: it takes any DefaultComment
NewMikrotikClientAny(defaults) == [client |-> TRUE, err |-> FALSE]

\* NewMikrotikClient (client.go:66-94): whether it returns a client and
\* whether it returns an error.  cookiejar.New returns no error for these
\* options, so the check of DefaultComment is the only way to fail.
NewMikrotikClient(defaults) ==
  IF defaults.DefaultComment = "" THEN [client |-> FALSE, err |-> TRUE]
  ELSE [client |-> TRUE, err |-> FALSE]

\* what c.Do can come back with: a network-level failure, or a response
\* with a status
NetworkFailure == [failed |-> TRUE, status |-> 0]
Status(n) == [failed |-> FALSE, status |-> n]

\* a faulty doRequest: the upper end of the accepted statuses is off by one
doRequestOffByOne(method, built, outcome) ==
  IF ~built THEN [sent |-> 0, resp |-> FALSE, err |-> TRUE]
  ELSE IF outcome.failed THEN [sent |-> 1, resp |-> FALSE, err |-> TRUE]
  ELSE IF outcome.status < 200 \/ outcome.status > 300
       THEN [sent |-> 1, resp |-> FALSE, err |-> TRUE]
  ELSE [sent |-> 1, resp |-> TRUE, err |-> FALSE]

\* doRequest (client.go:98-131): the number of c.Do calls it makes, whether
\* it returns a response and whether it returns an error.  built says
\* whether http.NewRequest could build the request (client.go:109-113).
doRequest(method, built, outcome) ==
  IF ~built THEN [sent |-> 0, resp |-> FALSE, err |-> TRUE]
  ELSE IF outcome.failed THEN [sent |-> 1, resp |-> FALSE, err |-> TRUE]
  ELSE IF outcome.status < 200 \/ outcome.status > 299
       THEN [sent |-> 1, resp |-> FALSE, err |-> TRUE]
  ELSE [sent |-> 1, resp |-> TRUE, err |-> FALSE]

\* a faulty stamping loop: the comment of the caller stays
stampCommentNot(records) == records

\* a faulty stamping loop: DefaultComment is only a default, for a caller
\* that gave no comment
stampCommentWhenEmpty(records) ==
  [k \in 1..Len(records) |->
     IF records[k].Comment = "" THEN [records[k] EXCEPT !.Comment = DefaultComment]
     ELSE records[k]]

\* CreateDNSRecords, the stamping loop (client.go:339-343)
stampComment(records) == [k \in 1..Len(records) |-> [records[k] EXCEPT !.Comment = DefaultComment]]

\* a faulty candidate test: it does not look at the targets of the endpoint
isCandidateAnyTarget(record, endpoint) ==
  /\ record.Name = endpoint.DNSName
  /\ record.Type = endpoint.RecordType
  /\ record.Comment = DefaultComment

\* a faulty candidate test: a record needs one of the targets of the
\* endpoint also when the endpoint lists none
isCandidateNeedsTarget(record, endpoint) ==
  /\ record.Name = endpoint.DNSName
  /\ record.Type = endpoint.RecordType
  /\ record.Comment = DefaultComment
  /\ getRecordTarget(record) # EmptyStr
  /\ \E k \in 1..Len(endpoint.Targets) : getRecordTarget(record) = endpoint.Targets[k]

\* a faulty candidate test: it trusts the comment filter of the store and
\* does not compare the comment itself
isCandidateAnyComment(record, endpoint) ==
  /\ record.Name = endpoint.DNSName
  /\ record.Type = endpoint.RecordType
  /\ IF Len(endpoint.Targets) > 0
     THEN /\ getRecordTarget(record) # EmptyStr
          /\ \E k \in 1..Len(endpoint.Targets) : getRecordTarget(record) = endpoint.Targets[k]
     ELSE TRUE

\* a faulty candidate test: it compares the target of the record with the
\* targets of the endpoint also when the record has none
isCandidateEmptyTarget(record, endpoint) ==
  /\ record.Name = endpoint.DNSName
  /\ record.Type = endpoint.RecordType
  /\ record.Comment = DefaultComment
  /\ IF Len(endpoint.Targets) > 0
     THEN \E k \in 1..Len(endpoint.Targets) : getRecordTarget(record) = endpoint.Targets[k]
     ELSE TRUE

\* DeleteDNSRecords, the test one fetched record has to pass to become a
\* candidate (client.go:213-235)
isCandidate(record, endpoint) ==
  /\ record.Name = endpoint.DNSName
  /\ record.Type = endpoint.RecordType
  /\ record.Comment = DefaultComment
  /\ IF Len(endpoint.Targets) > 0
     THEN /\ getRecordTarget(record) # EmptyStr
          /\ \E k \in 1..Len(endpoint.Targets) : getRecordTarget(record) = endpoint.Targets[k]
     ELSE TRUE

\* a faulty loop over the targets: no break, so a record is appended for
\* every target of the endpoint that is its own
timesAppendedNoBreak(record, endpoint) ==
  IF Len(endpoint.Targets) > 0
  THEN Cardinality({k \in 1..Len(endpoint.Targets) :
                      getRecordTarget(record) = endpoint.Targets[k]})
  ELSE 1

\* DeleteDNSRecords, how often a record that passes the test is appended to
\* recordsToDelete: the loop over the targets appends it at the first target
\* that is its own and breaks (client.go:223-229), the branch without
\* targets appends it (client.go:234)
timesAppended(record, endpoint) == 1

\* DeleteDNSRecords, the candidate loop over the fetched records
\* (client.go:207-242): the candidates in the order of the response
RECURSIVE selectToDelete(_, _)
selectToDelete(allRecords, endpoint) ==
  IF allRecords = <<>> THEN <<>>
  ELSE LET record == Head(allRecords)
       IN (IF isCandidate(record, endpoint)
           THEN [k \in 1..timesAppended(record, endpoint) |-> record]
           ELSE <<>>) \o selectToDelete(Tail(allRecords), endpoint)

\* a faulty empty-candidate exit: "not found" reported as an error
noCandidatesErrNotFound(recordsToDelete) == TRUE

\* DeleteDNSRecords with no candidate returns nil (client.go:244-247):
\* whether it returns an error
noCandidatesErr(recordsToDelete) == FALSE

\* a faulty use of the re-fetch: the loop keeps the candidate as captured
\* in the initial fetch, with the id it had then
useUpdatedNot(record, updatedRecord) == record

\* DeleteDNSRecords, after a match in the re-fetched records the loop
\* variable becomes the matched record (client.go:279-281)
useUpdated(record, updatedRecord) == updatedRecord

\* a faulty create loop: it stops one record early
moreToCreateOffByOne(i, records) == i + 1 < Len(records)

\* CreateDNSRecords, the loop over the records (client.go:346): whether
\* another record follows the i-th
moreToCreate(i, records) == i < Len(records)

\* CreateDNSRecords, a created record joins the result (client.go:357)
appendCreated(createdRecords, createdRecord) == Append(createdRecords, createdRecord)

\* a faulty error exit: nil returned next to the error
partialResultNil(createdRecords) == <<>>

\* CreateDNSRecords, what it returns next to the error of a failed create
\* call (client.go:354)
partialResult(createdRecords) == createdRecords

\* a faulty search of the re-fetched records: it takes the first record of
\* the response for the candidate without comparing the two
findUpdatedAny(record, currentRecords) ==
  IF Len(currentRecords) = 0 THEN 0 ELSE 1

\* a faulty search of the re-fetched records: it takes the record after the
\* first one that matches the candidate
findUpdatedOffByOne(record, currentRecords) ==
  LET hits == {k \in 1..Len(currentRecords) : recordsMatch(record, currentRecords[k])}
  IN IF hits = {} THEN 0
     ELSE LET k == CHOOSE k \in hits : \A m \in hits : k <= m
          IN IF k < Len(currentRecords) THEN k + 1 ELSE 0

\* DeleteDNSRecords, the search of the re-fetched records (client.go:266-277):
\* the index of the first record that matches the candidate, 0 if none does
findUpdated(record, currentRecords) ==
  LET hits == {k \in 1..Len(currentRecords) : recordsMatch(record, currentRecords[k])}
  IN IF hits = {} THEN 0 ELSE CHOOSE k \in hits : \A m \in hits : k <= m

\* ------------------------------------------------------ the remote store
\* every order in which the records of a set can come back in a response
\* (the order of a response is not part of the REST contract)
RECURSIVE Orderings(_)
Orderings(S) ==
  IF S = {} THEN {<<>>}
  ELSE UNION {{<<r>> \o rest : rest \in Orderings(S \ {r})} : r \in S}

\* the value of the query parameter "type" (client.go:162), a
\* comma-separated list, as the sequence of its items
TypeQuery == <<"A", "AAAA", "CNAME", "TXT", "MX", "SRV", "NS">>

\* a request without a query
NoQuery == [keys |-> {}, type |-> <<>>, comment |-> "", name |-> ""]

\* a faulty query: the read is not constrained to the comment
QueryNoComment(name, comment) ==
  [keys |-> {"type"} \cup (IF name # "" THEN {"name"} ELSE {}),
   type |-> TypeQuery, comment |-> "", name |-> name]

\* GetDNSRecordsByName, the query parameters (client.go:161-171): keys are
\* the parameters that are set
Query(name, comment) ==
  [keys |-> {"type", "comment"} \cup (IF name # "" THEN {"name"} ELSE {}),
   type |-> TypeQuery, comment |-> comment, name |-> name]

\* GET ip/dns/static?type=..&comment=..[&name=..]: a store that honours the
\* query returns the records of a supported type with that comment, and
\* with that name when one is given; a store that ignores the query
\* returns every record (as the handler of client_test.go does)
serverGet(S, query, honoursQuery) ==
  IF honoursQuery
  THEN {r \in S :
          /\ ("name" \in query.keys /\ query.name # "") => r.Name = query.name
          /\ ("comment" \in query.keys /\ query.comment # "") => r.Comment = query.comment
          /\ ("type" \in query.keys /\ query.type # <<>>)
                => \E k \in 1..Len(query.type) : query.type[k] = r.Type}
  ELSE S

\* the answer to the read of a client whose ownership comment is comment
serverRead(S, name, comment, honoursQuery) ==
  serverGet(S, Query(name, comment), honoursQuery)

\* the responses a client can get for a set of records as its n-th remote
\* call: the records in any order
Responses(S, n) == Orderings({[r EXCEPT !.Read = n] : r \in S})

\* the stores that can follow a deletion: the remaining records keep their
\* content and get any ids the store likes (among them the old ones)
Renumberings(S) ==
  LET old == {r.ID : r \in S}
  IN {{[r EXCEPT !.ID = f[r.ID]] : r \in S} :
        f \in {g \in [old -> Ids] : \A a, b \in old : a # b => g[a] # g[b]}}

\* DELETE ip/dns/static/<id>: the stores that can follow the deletion of
\* record r.  A store with stable ids drops the record and nothing else
\* (the handler of integration_test.go deletes the key of a map); another
\* store may renumber the records it keeps
serverDelete(S, r, stable) ==
  IF stable THEN {S \ {r}} ELSE Renumberings(S \ {r})

\* the DeleteDNSRecords that came before the re-fetch (the older client):
\* it sends one DELETE call for the id of every candidate of the initial
\* fetch, in their order; what it leaves of a store with stable ids
RECURSIVE naiveDelete(_, _)
naiveDelete(S, recordsToDelete) ==
  IF recordsToDelete = <<>> THEN S
  ELSE naiveDelete({r \in S : r.ID # Head(recordsToDelete).ID}, Tail(recordsToDelete))

\* PUT ip/dns/static: the id the store gives a new record, the lowest one
\* no record has (the handler of integration_test.go counts upwards)
nextId(S) ==
  LET free == Ids \ {r.ID : r \in S}
  IN CHOOSE id \in free : \A other \in free : id <= other

\* -------------------------------------------------- inputs of the model
ip1 == <<"1.2.3.4">>
ip2 == <<"5.6.7.8">>
host == <<"target.example.com">>
ip6 == <<"2001:db8::1">>
txt1 == <<"v=spf1", "include:_spf.example.com", "~all">>
ns1 == <<"ns1.example.com">>
mx1 == <<"10", "smtp.example.com">>
srv1 == <<"10", "20", "5060", "sip.example.com">>
\* targets that lack fields (integration_test.go:1273-1328)
badmx == <<"invalid-mx-format">>
badsrv == <<"invalid", "srv", "format">>

Endpoint(name, type, targets) ==
  [NoEndpoint EXCEPT !.DNSName = name, !.RecordType = type, !.Targets = targets]

\* a faulty grouping: records of one name go into one endpoint whatever
\* their kind
sameGroupByName(endpoint, record) == endpoint.DNSName = record.Name

\* the aggregator: a record belongs to the endpoint of its name and kind
sameGroup(endpoint, record) ==
  endpoint.DNSName = record.Name /\ endpoint.RecordType = record.Type

\* the aggregator, record by record: the decoded target of a record goes to
\* the endpoint of its group, which is made when the record is the first
\* of its group
RECURSIVE AggregateFrom(_, _)
AggregateFrom(flat, endpoints) ==
  IF flat = <<>> THEN endpoints
  ELSE LET r == Head(flat)
           hits == {k \in 1..Len(endpoints) : sameGroup(endpoints[k], r)}
       IN IF hits = {}
          THEN AggregateFrom(Tail(flat),
                             Append(endpoints, Endpoint(r.Name, r.Type, <<decodedTarget(r)>>)))
          ELSE LET k == CHOOSE h \in hits : \A m \in hits : h <= m
               IN AggregateFrom(Tail(flat),
                                [endpoints EXCEPT ![k].Targets = Append(@, decodedTarget(r))])

\* the endpoints of the list-owned read for the records of one response
AggregateRecords(flat) == AggregateFrom(flat, <<>>)

\* the endpoints the callers pass in
EndpointPool ==
  { Endpoint("multi.example.com", "A", <<ip1, ip2>>),
    Endpoint("multi.example.com", "A", <<ip1>>),
    Endpoint("multi.example.com", "A", <<>>),
    Endpoint("multi.example.com", "AAAA", <<ip6>>),
    Endpoint("multi.example.com", "TXT", <<txt1>>),
    Endpoint("multi.example.com", "NS", <<ns1>>),
    Endpoint("multi.example.com", "MX", <<mx1>>),
    Endpoint("multi.example.com", "SRV", <<srv1>>),
    Endpoint("", "A", <<ip1>>),
    Endpoint("multi.example.com", "MX", <<mx1, badmx>>),
    Endpoint("multi.example.com", "SRV", <<badsrv>>),
    [Endpoint("multi.example.com", "CNAME", <<host>>) EXCEPT !.Comment = "manual"],
    [Endpoint("multi.example.com", "A", <<ip2>>) EXCEPT !.RecordTTL = 7200,
                                                         !.Comment = "Custom Comment",
                                                         !.Disabled = "true",
                                                         !.AddressList = "mylist"] }

\* the names the callers read
NamePool == {"", "multi.example.com"}

\* what the store can hold before the client starts (ids left out)
InitPool ==
  << NewDNSRecord([Endpoint("multi.example.com", "A", <<>>) EXCEPT !.Comment = DefaultComment], ip1),
     NewDNSRecord([Endpoint("multi.example.com", "A", <<>>) EXCEPT !.Comment = DefaultComment], ip2),
     NewDNSRecord([Endpoint("multi.example.com", "A", <<>>) EXCEPT !.Comment = "manual"], ip1),
     NewDNSRecord([Endpoint("other.example.com", "A", <<>>) EXCEPT !.Comment = DefaultComment], ip1),
     NewDNSRecord([Endpoint("multi.example.com", "CNAME", <<>>) EXCEPT !.Comment = DefaultComment], host) >>

\* the initial stores: up to MaxInit records of a pool, the same one
\* several times too, with distinct ids
StoresOf(pool) ==
  UNION {{ {[pool[f[k]] EXCEPT !.ID = k] : k \in 1..n} :
             f \in {g \in [1..n -> 1..Len(pool)] :
                      \A a, b \in 1..n : a <= b => g[a] <= g[b]} } : n \in 0..MaxInit}

InitStores == StoresOf(InitPool)

\* the records of one name and kind only, owned and not
SmallStores == StoresOf(SubSeq(InitPool, 1, 3))

\* one call of a caller: the operation and its argument (for a read, the
\* name is the argument)
DoDelete(e) == [op |-> "delete", ep |-> e]
DoCreate(e) == [op |-> "create", ep |-> e]
DoGet(name) == [op |-> "get", ep |-> [NoEndpoint EXCEPT !.DNSName = name]]

\* what one goroutine does when it is the only one: a single call, a create
\* followed by the delete of the same endpoint, or the same delete twice
SeqPlans ==
  {<<DoDelete(e)>> : e \in EndpointPool} \cup {<<DoCreate(e)>> : e \in EndpointPool}
    \cup {<<DoGet(name)>> : name \in NamePool}
    \cup {<<DoCreate(e), DoDelete(e)>> : e \in EndpointPool}
    \cup {<<DoDelete(e), DoDelete(e)>> : e \in EndpointPool}

\* the only goroutine is goroutine 1
SeqCallers == {[p \in Threads |-> IF p = 1 THEN calls ELSE <<>>] : calls \in SeqPlans}

\* what each of several goroutines does: one call
ConcurrentPlans ==
  << <<DoDelete(Endpoint("multi.example.com", "A", <<ip1, ip2>>))>>,
     <<DoCreate([Endpoint("multi.example.com", "A", <<ip1>>) EXCEPT !.Comment = "manual"])>>,
     <<DoGet("multi.example.com")>> >>

\* every goroutine makes one of these calls; which goroutine makes which
\* does not matter, so they are taken in the order of the list
ConcurrentCallers ==
  {[p \in Threads |-> ConcurrentPlans[f[p]]] :
     f \in {g \in [Threads -> 1..Len(ConcurrentPlans)] :
              \A a, b \in Threads : a <= b => g[a] <= g[b]}}

\* ------------------------------------------------------------- the state
VARIABLES
  store,            \* the records of the remote store, each with its id
  honoursQuery,     \* whether the store applies the query of a GET
  stableIds,        \* whether the records of the store keep their ids for good
  clientOf,         \* the client instance each goroutine calls into
  instance,         \* each client: the defaults it was configured with and
                    \* what NewMikrotikClient returned for them
  http,             \* the doRequest calls made one by one, with their outcomes
  cases,            \* the inputs a pure function was applied to one by one,
                    \* each with what the function returned
  deleteMutex,      \* MikrotikApiClient.deleteMutex of each client: 0 or the holder
  plan,             \* the calls each goroutine still has to make
  hist,             \* the calls each goroutine has made, and how they ended
  pc,               \* where each goroutine is
  op,               \* the operation a goroutine is in ("" when idle)
  ep,               \* its endpoint argument
  recordsToDelete,  \* DeleteDNSRecords: the candidates
  i,                \* the loop index (1-based) of the delete or create loop
  record,           \* DeleteDNSRecords: the loop variable record
  records,          \* CreateDNSRecords: the records to create
  createdRecords,   \* CreateDNSRecords: the records created so far
  got,              \* GetDNSRecordsByName: the result
  err,              \* whether the operation returned an error
  trace             \* the remote calls of the running operation

vars == <<store, honoursQuery, stableIds, clientOf, instance, http, cases, deleteMutex, plan, hist, pc, op, ep,
          recordsToDelete, i, record, records, createdRecords, got, err,
          trace>>

locals == <<ep, recordsToDelete, i, record, records, createdRecords, got, err>>

\* every goroutine calls into the same client instance
OneClient == [p \in Threads |-> 1]

\* No call has just returned.  A call that has returned has no further
\* effect and its result is taken at once (Return), so the other goroutines
\* take their next step after that.
NoneReturning == \A q \in Threads : pc[q] # "done"

\* the next call of goroutine p is one of this kind
IsNext(p, kind) == plan[p] # <<>> /\ Head(plan[p]).op = kind

\* the remote calls of one kind that goroutine p has made in the running
\* operation and that succeeded
Succeeded(p, kind) == {k \in DOMAIN trace[p] : trace[p][k].op = kind /\ trace[p][k].ok}

\* the number of records the running operation of p has deleted
Deleted(p) == Cardinality(Succeeded(p, "DELETE"))

\* the contents of the records the store has removed for the DELETE calls
\* of the running operation of p
Removed(p) == {trace[p][k].hit : k \in Succeeded(p, "DELETE")}

\* one remote call of an operation: the method, whether it succeeded, and
\* the record it was made for (the record sent by a PUT, the record whose
\* id is in the path of a DELETE); hit is not something the client sees: it
\* is the record the store removed in a DELETE
Call(kind, ok, rec) ==
  [op |-> kind, ok |-> ok, rec |-> rec, hit |-> BlankRecord, query |-> NoQuery]

\* a GET call of GetDNSRecordsByName(name) (client.go:174)
Get(ok, name) == [Call("GET", ok, BlankRecord) EXCEPT !.query = Query(name, DefaultComment)]

\* a client that NewMikrotikClient has returned for DefaultComment
Constructed ==
  [defaults |-> [DefaultComment |-> DefaultComment], called |-> TRUE,
   result |-> NewMikrotikClient([DefaultComment |-> DefaultComment])]

\* goroutine p has a client to call into
HasClient(p) == instance[clientOf[p]].called /\ instance[clientOf[p]].result.client

\* the state of the store and of the goroutines before any call
InitOps(stores, callers, query, instances, stable) ==
  /\ store \in stores
  /\ honoursQuery \in query
  /\ stableIds \in stable
  /\ plan \in callers
  /\ clientOf \in instances
  /\ cases = <<>>
  /\ hist = [p \in Threads |-> <<>>]
  /\ deleteMutex = [c \in Clients |-> 0]
  /\ pc = [p \in Threads |-> "idle"]
  /\ op = [p \in Threads |-> ""]
  /\ ep = [p \in Threads |-> NoEndpoint]
  /\ recordsToDelete = [p \in Threads |-> <<>>]
  /\ i = [p \in Threads |-> 0]
  /\ record = [p \in Threads |-> BlankRecord]
  /\ records = [p \in Threads |-> <<>>]
  /\ createdRecords = [p \in Threads |-> <<>>]
  /\ got = [p \in Threads |-> <<>>]
  /\ err = [p \in Threads |-> FALSE]
  /\ trace = [p \in Threads |-> <<>>]

\* the state after the construction of the clients
InitWith(stores, callers, query, instances) ==
  /\ instance = [c \in Clients |-> Constructed]
  /\ http = <<>>
  /\ InitOps(stores, callers, query, instances, {FALSE})

\* several goroutines on one client, a store that honours the query
Init == InitWith(SmallStores, ConcurrentCallers, {TRUE}, {OneClient})

\* ------------------------------------------------------- DeleteDNSRecords
\* a goroutine calls DeleteDNSRecords(e) and reaches deleteMutex.Lock()
DeleteCall(p) ==
  /\ NoneReturning
  /\ HasClient(p)
  /\ pc[p] = "idle" /\ IsNext(p, "delete")
  /\ plan' = [plan EXCEPT ![p] = Tail(@)]
  /\ pc' = [pc EXCEPT ![p] = "lock"]
  /\ op' = [op EXCEPT ![p] = "delete"]
  /\ ep' = [ep EXCEPT ![p] = Head(plan[p]).ep]
  /\ UNCHANGED <<store, honoursQuery, stableIds, clientOf, instance, http, cases, deleteMutex, hist, recordsToDelete, i,
                 record, records, createdRecords, got, err, trace>>

\* a faulty DeleteDNSRecords: it goes on without waiting for the mutex
DeleteLockNoWait(p) ==
  /\ NoneReturning
  /\ pc[p] = "lock"
  /\ deleteMutex' = [deleteMutex EXCEPT ![clientOf[p]] = p]
  /\ pc' = [pc EXCEPT ![p] = "fetch"]
  /\ UNCHANGED <<store, honoursQuery, stableIds, clientOf, instance, http, cases, plan, hist, op, ep, recordsToDelete, i,
                 record, records, createdRecords, got, err, trace>>

\* a DeleteDNSRecords under a lock that all client instances share
DeleteLockShared(p) ==
  /\ NoneReturning
  /\ pc[p] = "lock"
  /\ \A c \in Clients : deleteMutex[c] = 0
  /\ deleteMutex' = [deleteMutex EXCEPT ![clientOf[p]] = p]
  /\ pc' = [pc EXCEPT ![p] = "fetch"]
  /\ UNCHANGED <<store, honoursQuery, stableIds, clientOf, instance, http, cases, plan, hist, op, ep, recordsToDelete, i,
                 record, records, createdRecords, got, err, trace>>

\* c.deleteMutex.Lock() returns (client.go:195)
DeleteLock(p) ==
  /\ NoneReturning
  /\ pc[p] = "lock"
  /\ deleteMutex[clientOf[p]] = 0
  /\ deleteMutex' = [deleteMutex EXCEPT ![clientOf[p]] = p]
  /\ pc' = [pc EXCEPT ![p] = "fetch"]
  /\ UNCHANGED <<store, honoursQuery, stableIds, clientOf, instance, http, cases, plan, hist, op, ep, recordsToDelete, i,
                 record, records, createdRecords, got, err, trace>>

\* the initial GetDNSRecordsByName fails (client.go:201-204); the deferred
\* Unlock runs
DeleteFetchFail(p) ==
  /\ NoneReturning
  /\ pc[p] = "fetch"
  /\ trace' = [trace EXCEPT ![p] = Append(@, Get(FALSE, ep[p].DNSName))]
  /\ err' = [err EXCEPT ![p] = TRUE]
  /\ pc' = [pc EXCEPT ![p] = "done"]
  /\ deleteMutex' = [deleteMutex EXCEPT ![clientOf[p]] = 0]
  /\ UNCHANGED <<store, honoursQuery, stableIds, clientOf, instance, http, cases, plan, hist, op, ep, recordsToDelete, i,
                 record, records, createdRecords, got>>

\* a faulty delete loop: it re-fetches before the first candidate too
DeleteFetchReverifyFirst(p) ==
  /\ NoneReturning
  /\ pc[p] = "fetch"
  /\ \E allRecords \in Responses(serverRead(store, ep[p].DNSName, DefaultComment, honoursQuery),
                                  Len(trace[p]) + 1) :
       LET toDelete == selectToDelete(allRecords, ep[p])
       IN /\ recordsToDelete' = [recordsToDelete EXCEPT ![p] = toDelete]
          /\ trace' = [trace EXCEPT ![p] = Append(@, Get(TRUE, ep[p].DNSName))]
          /\ IF Len(toDelete) = 0
             THEN /\ pc' = [pc EXCEPT ![p] = "done"]
                  /\ err' = [err EXCEPT ![p] = noCandidatesErr(toDelete)]
                  /\ deleteMutex' = [deleteMutex EXCEPT ![clientOf[p]] = 0]
                  /\ UNCHANGED <<i, record>>
             ELSE /\ pc' = [pc EXCEPT ![p] = "loop"]
                  /\ i' = [i EXCEPT ![p] = 1]
                  /\ record' = [record EXCEPT ![p] = toDelete[1]]
                  /\ UNCHANGED <<deleteMutex, err>>
  /\ UNCHANGED <<store, honoursQuery, stableIds, clientOf, instance, http, cases, plan, hist, op, ep, records,
                 createdRecords, got>>

\* a faulty DeleteDNSRecords: it unlocks at the end of the function and not
\* in a defer, so the early return for an empty candidate list leaves the
\* mutex locked
DeleteFetchKeepsLock(p) ==
  /\ NoneReturning
  /\ pc[p] = "fetch"
  /\ \E allRecords \in Responses(serverRead(store, ep[p].DNSName, DefaultComment, honoursQuery),
                                  Len(trace[p]) + 1) :
       LET toDelete == selectToDelete(allRecords, ep[p])
       IN /\ recordsToDelete' = [recordsToDelete EXCEPT ![p] = toDelete]
          /\ trace' = [trace EXCEPT ![p] = Append(@, Get(TRUE, ep[p].DNSName))]
          /\ IF Len(toDelete) = 0
             THEN /\ pc' = [pc EXCEPT ![p] = "done"]
                  /\ err' = [err EXCEPT ![p] = noCandidatesErr(toDelete)]
                  /\ UNCHANGED <<deleteMutex, i, record>>
             ELSE /\ pc' = [pc EXCEPT ![p] = "delete"]
                  /\ i' = [i EXCEPT ![p] = 1]
                  /\ record' = [record EXCEPT ![p] = toDelete[1]]
                  /\ UNCHANGED <<deleteMutex, err>>
  /\ UNCHANGED <<store, honoursQuery, stableIds, clientOf, instance, http, cases, plan, hist, op, ep, records,
                 createdRecords, got>>

\* the initial fetch and the building of the candidate list
\* (client.go:201-247), up to the first DELETE call
DeleteFetch(p) ==
  /\ NoneReturning
  /\ pc[p] = "fetch"
  /\ \E allRecords \in Responses(serverRead(store, ep[p].DNSName, DefaultComment, honoursQuery),
                                  Len(trace[p]) + 1) :
       LET toDelete == selectToDelete(allRecords, ep[p])
       IN /\ recordsToDelete' = [recordsToDelete EXCEPT ![p] = toDelete]
          /\ trace' = [trace EXCEPT ![p] = Append(@, Get(TRUE, ep[p].DNSName))]
          /\ IF Len(toDelete) = 0
             THEN /\ pc' = [pc EXCEPT ![p] = "done"]
                  /\ err' = [err EXCEPT ![p] = noCandidatesErr(toDelete)]
                  /\ deleteMutex' = [deleteMutex EXCEPT ![clientOf[p]] = 0]
                  /\ UNCHANGED <<i, record>>
             ELSE /\ pc' = [pc EXCEPT ![p] = "delete"]
                  /\ i' = [i EXCEPT ![p] = 1]
                  /\ record' = [record EXCEPT ![p] = toDelete[1]]
                  /\ UNCHANGED <<deleteMutex, err>>
  /\ UNCHANGED <<store, honoursQuery, stableIds, clientOf, instance, http, cases, plan, hist, op, ep, records,
                 createdRecords, got>>

\* a faulty DeleteDNSRecords: a failed re-fetch ends the loop but the error
\* is not returned
DeleteRefetchFailSwallowed(p) ==
  /\ NoneReturning
  /\ pc[p] = "loop"
  /\ trace' = [trace EXCEPT ![p] = Append(@, Get(FALSE, ep[p].DNSName))]
  /\ pc' = [pc EXCEPT ![p] = "done"]
  /\ deleteMutex' = [deleteMutex EXCEPT ![clientOf[p]] = 0]
  /\ UNCHANGED <<store, honoursQuery, stableIds, clientOf, instance, http, cases, plan, hist, op, ep, recordsToDelete, i,
                 record, records, createdRecords, got, err>>

\* the re-fetch before a later candidate fails (client.go:258-262)
DeleteRefetchFail(p) ==
  /\ NoneReturning
  /\ pc[p] = "loop"
  /\ trace' = [trace EXCEPT ![p] = Append(@, Get(FALSE, ep[p].DNSName))]
  /\ err' = [err EXCEPT ![p] = TRUE]
  /\ pc' = [pc EXCEPT ![p] = "done"]
  /\ deleteMutex' = [deleteMutex EXCEPT ![clientOf[p]] = 0]
  /\ UNCHANGED <<store, honoursQuery, stableIds, clientOf, instance, http, cases, plan, hist, op, ep, recordsToDelete, i,
                 record, records, createdRecords, got>>

\* the re-fetch before a later candidate and the search for the candidate
\* in it (client.go:256-282)
DeleteRefetch(p) ==
  /\ NoneReturning
  /\ pc[p] = "loop"
  /\ \E currentRecords \in Responses(serverRead(store, ep[p].DNSName, DefaultComment, honoursQuery),
                                      Len(trace[p]) + 1) :
       LET k == findUpdated(recordsToDelete[p][i[p]], currentRecords)
       IN /\ trace' = [trace EXCEPT ![p] = Append(@, Get(TRUE, ep[p].DNSName))]
          /\ IF k = 0
             THEN \* continue with the next candidate, or leave the loop
                  /\ UNCHANGED record
                  /\ IF i[p] < Len(recordsToDelete[p])
                     THEN /\ i' = [i EXCEPT ![p] = @ + 1]
                          /\ UNCHANGED <<pc, deleteMutex>>
                     ELSE /\ pc' = [pc EXCEPT ![p] = "done"]
                          /\ deleteMutex' = [deleteMutex EXCEPT ![clientOf[p]] = 0]
                          /\ UNCHANGED i
             ELSE /\ record' = [record EXCEPT ![p] = useUpdated(recordsToDelete[p][i[p]], currentRecords[k])]
                  /\ pc' = [pc EXCEPT ![p] = "delete"]
                  /\ UNCHANGED <<i, deleteMutex>>
  /\ UNCHANGED <<store, honoursQuery, stableIds, clientOf, instance, http, cases, plan, hist, op, ep, recordsToDelete,
                 records, createdRecords, got, err>>

\* a faulty DeleteDNSRecords: it unlocks at the end of the function and not
\* in a defer, so the return on a failed DELETE call leaves the mutex locked
DeleteRequestFailKeepsLock(p) ==
  /\ NoneReturning
  /\ pc[p] = "delete"
  /\ trace' = [trace EXCEPT ![p] =
                 Append(@, Call("DELETE", FALSE, record[p]))]
  /\ err' = [err EXCEPT ![p] = TRUE]
  /\ pc' = [pc EXCEPT ![p] = "done"]
  /\ UNCHANGED <<store, honoursQuery, stableIds, clientOf, instance, http, cases, deleteMutex, plan, hist, op, ep,
                 recordsToDelete, i, record, records, createdRecords, got>>

\* a faulty DeleteDNSRecords: a DELETE call that failed counts as a record
\* already gone, and the loop goes on without an error
DeleteRequestFailIgnored(p) ==
  /\ NoneReturning
  /\ pc[p] = "delete"
  /\ trace' = [trace EXCEPT ![p] =
                 Append(@, Call("DELETE", FALSE, record[p]))]
  /\ IF i[p] < Len(recordsToDelete[p])
     THEN /\ i' = [i EXCEPT ![p] = @ + 1]
          /\ pc' = [pc EXCEPT ![p] = "loop"]
          /\ UNCHANGED deleteMutex
     ELSE /\ pc' = [pc EXCEPT ![p] = "done"]
          /\ deleteMutex' = [deleteMutex EXCEPT ![clientOf[p]] = 0]
          /\ UNCHANGED i
  /\ UNCHANGED <<store, honoursQuery, stableIds, clientOf, instance, http, cases, plan, hist, op, ep,
                 recordsToDelete, record, records, createdRecords, got, err>>

\* the DELETE call fails: a transport failure, or no record has the id
\* (client.go:285-289)
DeleteRequestFail(p) ==
  /\ NoneReturning
  /\ pc[p] = "delete"
  /\ trace' = [trace EXCEPT ![p] =
                 Append(@, Call("DELETE", FALSE, record[p]))]
  /\ err' = [err EXCEPT ![p] = TRUE]
  /\ pc' = [pc EXCEPT ![p] = "done"]
  /\ deleteMutex' = [deleteMutex EXCEPT ![clientOf[p]] = 0]
  /\ UNCHANGED <<store, honoursQuery, stableIds, clientOf, instance, http, cases, plan, hist, op, ep, recordsToDelete, i,
                 record, records, createdRecords, got>>

\* a faulty delete loop: after a DELETE call it goes on to the next
\* candidate with the id captured in the initial fetch, without a re-fetch
DeleteRequestNoReverify(p) ==
  /\ NoneReturning
  /\ pc[p] = "delete"
  /\ \E r \in store :
       /\ r.ID = record[p].ID
       /\ store' \in serverDelete(store, r, stableIds)
       /\ trace' = [trace EXCEPT ![p] =
                      Append(@, [Call("DELETE", TRUE, record[p]) EXCEPT !.hit = Content(r)])]
  /\ IF i[p] < Len(recordsToDelete[p])
     THEN /\ i' = [i EXCEPT ![p] = @ + 1]
          /\ record' = [record EXCEPT ![p] = recordsToDelete[p][i[p] + 1]]
          /\ UNCHANGED <<pc, deleteMutex>>
     ELSE /\ pc' = [pc EXCEPT ![p] = "done"]
          /\ deleteMutex' = [deleteMutex EXCEPT ![clientOf[p]] = 0]
          /\ UNCHANGED <<i, record>>
  /\ UNCHANGED <<honoursQuery, stableIds, clientOf, instance, http, cases, plan, hist, op, ep, recordsToDelete,
                 records, createdRecords, got, err>>

\* the DELETE call succeeds (client.go:285-292): the store drops the record
\* with that id and renumbers the others
DeleteRequest(p) ==
  /\ NoneReturning
  /\ pc[p] = "delete"
  /\ \E r \in store :
       /\ r.ID = record[p].ID
       /\ store' \in serverDelete(store, r, stableIds)
       /\ trace' = [trace EXCEPT ![p] =
                      Append(@, [Call("DELETE", TRUE, record[p]) EXCEPT !.hit = Content(r)])]
  /\ IF i[p] < Len(recordsToDelete[p])
     THEN /\ i' = [i EXCEPT ![p] = @ + 1]
          /\ pc' = [pc EXCEPT ![p] = "loop"]
          /\ UNCHANGED deleteMutex
     ELSE /\ pc' = [pc EXCEPT ![p] = "done"]
          /\ deleteMutex' = [deleteMutex EXCEPT ![clientOf[p]] = 0]
          /\ UNCHANGED i
  /\ UNCHANGED <<honoursQuery, stableIds, clientOf, instance, http, cases, plan, hist, op, ep, recordsToDelete, record,
                 records, createdRecords, got, err>>

\* ------------------------------------------------------- CreateDNSRecords
\* a faulty CreateDNSRecords: it does not start while a DeleteDNSRecords
\* call of the client holds deleteMutex
CreateCallLocked(p) ==
  /\ NoneReturning
  /\ HasClient(p)
  /\ deleteMutex[clientOf[p]] = 0
  /\ pc[p] = "idle" /\ IsNext(p, "create")
  /\ plan' = [plan EXCEPT ![p] = Tail(@)]
  /\ op' = [op EXCEPT ![p] = "create"]
  /\ ep' = [ep EXCEPT ![p] = Head(plan[p]).ep]
  /\ IF convertsOk(Head(plan[p]).ep)
     THEN /\ records' = [records EXCEPT ![p] = stampComment(NewDNSRecords(Head(plan[p]).ep))]
          /\ i' = [i EXCEPT ![p] = 1]
          /\ pc' = [pc EXCEPT ![p] = "put"]
          /\ UNCHANGED err
     ELSE /\ err' = [err EXCEPT ![p] = TRUE]
          /\ pc' = [pc EXCEPT ![p] = "done"]
          /\ UNCHANGED <<records, i>>
  /\ UNCHANGED <<store, honoursQuery, stableIds, clientOf, instance, http, cases, deleteMutex, hist, recordsToDelete,
                 record, createdRecords, got, trace>>

\* a faulty CreateDNSRecords: it does not return on the error of the
\* conversion and goes on with the records of the targets that converted
CreateCallNoCheck(p) ==
  /\ NoneReturning
  /\ HasClient(p)
  /\ pc[p] = "idle" /\ IsNext(p, "create")
  /\ plan' = [plan EXCEPT ![p] = Tail(@)]
  /\ op' = [op EXCEPT ![p] = "create"]
  /\ ep' = [ep EXCEPT ![p] = Head(plan[p]).ep]
  /\ LET e == Head(plan[p]).ep
         good == [e EXCEPT !.Targets =
                    SelectSeq(e.Targets, LAMBDA t : targetConverts(e.RecordType, t))]
     IN IF Len(good.Targets) > 0
        THEN /\ records' = [records EXCEPT ![p] = stampComment(NewDNSRecords(good))]
             /\ i' = [i EXCEPT ![p] = 1]
             /\ pc' = [pc EXCEPT ![p] = "put"]
             /\ UNCHANGED err
        ELSE /\ err' = [err EXCEPT ![p] = TRUE]
             /\ pc' = [pc EXCEPT ![p] = "done"]
             /\ UNCHANGED <<records, i>>
  /\ UNCHANGED <<store, honoursQuery, stableIds, clientOf, instance, http, cases, deleteMutex, hist, recordsToDelete,
                 record, createdRecords, got, trace>>

\* CreateDNSRecords(e) up to its first create call (client.go:330-345)
CreateCall(p) ==
  /\ NoneReturning
  /\ HasClient(p)
  /\ pc[p] = "idle" /\ IsNext(p, "create")
  /\ plan' = [plan EXCEPT ![p] = Tail(@)]
  /\ op' = [op EXCEPT ![p] = "create"]
  /\ ep' = [ep EXCEPT ![p] = Head(plan[p]).ep]
  /\ IF convertsOk(Head(plan[p]).ep)
     THEN /\ records' = [records EXCEPT ![p] = stampComment(NewDNSRecords(Head(plan[p]).ep))]
          /\ i' = [i EXCEPT ![p] = 1]
          /\ pc' = [pc EXCEPT ![p] = "put"]
          /\ UNCHANGED err
     ELSE /\ err' = [err EXCEPT ![p] = TRUE]
          /\ pc' = [pc EXCEPT ![p] = "done"]
          /\ UNCHANGED <<records, i>>
  /\ UNCHANGED <<store, honoursQuery, stableIds, clientOf, instance, http, cases, deleteMutex, hist, recordsToDelete,
                 record, createdRecords, got, trace>>

\* createSingleDNSRecord fails (client.go:349-355)
CreatePutFail(p) ==
  /\ NoneReturning
  /\ pc[p] = "put"
  /\ trace' = [trace EXCEPT ![p] = Append(@, Call("PUT", FALSE, records[p][i[p]]))]
  /\ createdRecords' = [createdRecords EXCEPT ![p] = partialResult(@)]
  /\ err' = [err EXCEPT ![p] = TRUE]
  /\ pc' = [pc EXCEPT ![p] = "done"]
  /\ UNCHANGED <<store, honoursQuery, stableIds, clientOf, instance, http, cases, deleteMutex, plan, hist, op, ep,
                 recordsToDelete, i, record, records, got>>

\* createSingleDNSRecord succeeds (client.go:349-357, 365-392): the store
\* adds the record under an id of its own and echoes it
CreatePut(p) ==
  /\ NoneReturning
  /\ pc[p] = "put"
  /\ Cardinality(store) < MaxStore
  /\ LET stored == [records[p][i[p]] EXCEPT !.ID = nextId(store)]
         createdRecord == [stored EXCEPT !.Read = Len(trace[p]) + 1]
     IN /\ store' = store \cup {stored}
        /\ createdRecords' = [createdRecords EXCEPT ![p] = appendCreated(@, createdRecord)]
  /\ trace' = [trace EXCEPT ![p] = Append(@, Call("PUT", TRUE, records[p][i[p]]))]
  /\ IF moreToCreate(i[p], records[p])
     THEN /\ i' = [i EXCEPT ![p] = @ + 1]
          /\ UNCHANGED pc
     ELSE /\ pc' = [pc EXCEPT ![p] = "done"]
          /\ UNCHANGED i
  /\ UNCHANGED <<honoursQuery, stableIds, clientOf, instance, http, cases, deleteMutex, plan, hist, op, ep,
                 recordsToDelete, record, records, got, err>>

\* ---------------------------------------------------- GetDNSRecordsByName
\* GetDNSRecordsByName(name) fails (client.go:174-178)
GetRecordsFail(p) ==
  /\ NoneReturning
  /\ HasClient(p)
  /\ pc[p] = "idle" /\ IsNext(p, "get")
  /\ plan' = [plan EXCEPT ![p] = Tail(@)]
  /\ op' = [op EXCEPT ![p] = "get"]
  /\ ep' = [ep EXCEPT ![p] = Head(plan[p]).ep]
  /\ trace' = [trace EXCEPT ![p] = Append(@, Get(FALSE, Head(plan[p]).ep.DNSName))]
  /\ err' = [err EXCEPT ![p] = TRUE]
  /\ pc' = [pc EXCEPT ![p] = "done"]
  /\ UNCHANGED <<store, honoursQuery, stableIds, clientOf, instance, http, cases, deleteMutex, hist, recordsToDelete, i,
                 record, records, createdRecords, got>>

\* a faulty GetDNSRecordsByName: after a create it answers from what the
\* create returned, without a read of the store
GetRecordsCached(p) ==
  /\ NoneReturning
  /\ HasClient(p)
  /\ pc[p] = "idle" /\ IsNext(p, "get")
  /\ plan' = [plan EXCEPT ![p] = Tail(@)]
  /\ op' = [op EXCEPT ![p] = "get"]
  /\ ep' = [ep EXCEPT ![p] = Head(plan[p]).ep]
  /\ IF hist[p] # <<>> /\ hist[p][Len(hist[p])].op = "create"
     THEN /\ got' = [got EXCEPT ![p] = hist[p][Len(hist[p])].created]
          /\ UNCHANGED trace
     ELSE /\ trace' = [trace EXCEPT ![p] = Append(@, Get(TRUE, Head(plan[p]).ep.DNSName))]
          /\ got' \in {[got EXCEPT ![p] = response] :
                         response \in Responses(serverRead(store, Head(plan[p]).ep.DNSName,
                                                           DefaultComment, honoursQuery), 1)}
  /\ pc' = [pc EXCEPT ![p] = "done"]
  /\ UNCHANGED <<store, honoursQuery, stableIds, clientOf, instance, http, cases, deleteMutex, hist, recordsToDelete, i,
                 record, records, createdRecords, err>>

\* a faulty GetDNSRecordsByName: it waits until no delete of its client is
\* between Lock and return
GetRecordsLocked(p) ==
  /\ NoneReturning
  /\ HasClient(p)
  /\ pc[p] = "idle" /\ IsNext(p, "get")
  /\ deleteMutex[clientOf[p]] = 0
  /\ plan' = [plan EXCEPT ![p] = Tail(@)]
  /\ op' = [op EXCEPT ![p] = "get"]
  /\ ep' = [ep EXCEPT ![p] = Head(plan[p]).ep]
  /\ trace' = [trace EXCEPT ![p] = Append(@, Get(TRUE, Head(plan[p]).ep.DNSName))]
  /\ got' \in {[got EXCEPT ![p] = response] :
                 response \in Responses(serverRead(store, Head(plan[p]).ep.DNSName,
                                                   DefaultComment, honoursQuery), 1)}
  /\ pc' = [pc EXCEPT ![p] = "done"]
  /\ UNCHANGED <<store, honoursQuery, stableIds, clientOf, instance, http, cases, deleteMutex, hist, recordsToDelete, i,
                 record, records, createdRecords, err>>

\* GetDNSRecordsByName(name) returns the records of the response
\* (client.go:159-190)
GetRecords(p) ==
  /\ NoneReturning
  /\ HasClient(p)
  /\ pc[p] = "idle" /\ IsNext(p, "get")
  /\ plan' = [plan EXCEPT ![p] = Tail(@)]
  /\ op' = [op EXCEPT ![p] = "get"]
  /\ ep' = [ep EXCEPT ![p] = Head(plan[p]).ep]
  /\ trace' = [trace EXCEPT ![p] = Append(@, Get(TRUE, Head(plan[p]).ep.DNSName))]
  /\ got' \in {[got EXCEPT ![p] = response] :
                 response \in Responses(serverRead(store, Head(plan[p]).ep.DNSName,
                                                   DefaultComment, honoursQuery), 1)}
  /\ pc' = [pc EXCEPT ![p] = "done"]
  /\ UNCHANGED <<store, honoursQuery, stableIds, clientOf, instance, http, cases, deleteMutex, hist, recordsToDelete, i,
                 record, records, createdRecords, err>>

\* the caller takes the result and, when it has another call to make,
\* remembers how this one ended (the error, the records a create returned,
\* and what the store removed for a delete); the goroutine is free for its
\* next call
Return(p) ==
  /\ pc[p] = "done"
  /\ hist' = [hist EXCEPT ![p] = IF plan[p] = <<>> THEN <<>>
                               ELSE Append(@, [op |-> op[p], ep |-> ep[p], err |-> err[p],
                                               deleted |-> Deleted(p),
                                               created |-> createdRecords[p],
                                               removed |-> Removed(p)])]
  /\ pc' = [pc EXCEPT ![p] = "idle"]
  /\ op' = [op EXCEPT ![p] = ""]
  /\ ep' = [ep EXCEPT ![p] = NoEndpoint]
  /\ recordsToDelete' = [recordsToDelete EXCEPT ![p] = <<>>]
  /\ i' = [i EXCEPT ![p] = 0]
  /\ record' = [record EXCEPT ![p] = BlankRecord]
  /\ records' = [records EXCEPT ![p] = <<>>]
  /\ createdRecords' = [createdRecords EXCEPT ![p] = <<>>]
  /\ got' = [got EXCEPT ![p] = <<>>]
  /\ err' = [err EXCEPT ![p] = FALSE]
  /\ trace' = [trace EXCEPT ![p] = <<>>]
  /\ UNCHANGED <<store, honoursQuery, stableIds, clientOf, instance, http, cases, deleteMutex, plan>>

Next ==
  \/ \E p \in Threads : DeleteCall(p)
  \/ \E p \in Threads : DeleteLock(p)
  \/ \E p \in Threads : DeleteFetchFail(p)
  \/ \E p \in Threads : DeleteFetch(p)
  \/ \E p \in Threads : DeleteRefetchFail(p)
  \/ \E p \in Threads : DeleteRefetch(p)
  \/ \E p \in Threads : DeleteRequestFail(p)
  \/ \E p \in Threads : DeleteRequest(p)
  \/ \E p \in Threads : CreateCall(p)
  \/ \E p \in Threads : CreatePutFail(p)
  \/ \E p \in Threads : CreatePut(p)
  \/ \E p \in Threads : GetRecordsFail(p)
  \/ \E p \in Threads : GetRecords(p)
  \/ \E p \in Threads : Return(p)

Spec == Init /\ [][Next]_vars

\* one goroutine: every operation runs with no concurrent actor
InitSeq == InitWith(InitStores, SeqCallers, {TRUE}, {OneClient})

SpecSeq == InitSeq /\ [][Next]_vars

TypeOK ==
  /\ \A r \in store : r.ID \in Ids
  /\ \A r, q \in store : r.ID = q.ID => r = q
  /\ Cardinality(store) <= MaxStore
  /\ deleteMutex \in [Clients -> {0} \cup Threads]
  /\ clientOf \in [Threads -> Clients]
  /\ \A c \in Clients : instance[c].called => instance[c].result = NewMikrotikClient(instance[c].defaults)
  /\ Len(http) <= MaxCalls
  /\ Len(cases) <= MaxCalls + 1

\* one goroutine, and a store that may or may not apply the query of a GET
InitAnyServer == InitWith(InitStores, SeqCallers, {TRUE, FALSE}, {OneClient})

SpecAnyServer == InitAnyServer /\ [][Next]_vars

\* ------------------------------------------------ construction, transport
\* NewMikrotikClient is called for client c with the defaults configured
Construct(c) ==
  /\ ~instance[c].called
  /\ instance' = [instance EXCEPT ![c].called = TRUE,
                                  ![c].result = NewMikrotikClient(instance[c].defaults)]
  /\ UNCHANGED <<store, cases, honoursQuery, stableIds, clientOf, http, deleteMutex, plan, hist, pc, op, ep,
                 recordsToDelete, i, record, records, createdRecords, got, err, trace>>

\* the configurations of the clients before NewMikrotikClient is called
Unconstructed ==
  {[defaults |-> [DefaultComment |-> d], called |-> FALSE,
    result |-> [client |-> FALSE, err |-> FALSE]] : d \in {"", DefaultComment}}

\* the clients are yet to be constructed; goroutine 1 calls into client 1
InitLifecycle ==
  /\ instance \in [Clients -> Unconstructed]
  /\ http = <<>>
  /\ InitOps(SmallStores, SeqCallers, {TRUE}, {OneClient}, {FALSE})

NextLifecycle ==
  \/ \E c \in Clients : Construct(c)
  \/ Next

SpecLifecycle == InitLifecycle /\ [][NextLifecycle]_vars

\* the methods of the requests and the statuses the device answers with
Methods == {"GET", "PUT", "DELETE"}
StatusPool == {100, 199, 200, 201, 299, 300, 404, 500}
Outcomes == {NetworkFailure} \cup {Status(n) : n \in StatusPool}

\* one doRequest call, with what it was called for and what came of it
DoRequest ==
  /\ Len(http) < MaxCalls
  /\ \E method \in Methods, built \in BOOLEAN, outcome \in Outcomes :
       http' = Append(http, [method |-> method, built |-> built, outcome |-> outcome,
                             result |-> doRequest(method, built, outcome)])
  /\ UNCHANGED <<store, cases, honoursQuery, stableIds, clientOf, instance, deleteMutex, plan, hist, pc, op,
                 ep, recordsToDelete, i, record, records, createdRecords, got, err, trace>>

\* doRequest alone: no goroutine makes a call of the client
InitTransport ==
  InitWith({{}}, {[p \in Threads |-> <<>>]}, {TRUE}, {OneClient})

SpecTransport == InitTransport /\ [][DoRequest]_vars

\* the TTLs of the endpoints, in seconds
TTLPool == {1, 59, 60, 61, 1800, 3599, 3600, 3660, 5400, 7200, 86399, 86400, 90000,
            172800, 604800}

\* the TTL of an endpoint is encoded for a record and the string of the
\* record is decoded again
ConvertTTL ==
  /\ Len(cases) < MaxCalls
  /\ \E seconds \in TTLPool :
       cases' = Append(cases, [seconds |-> seconds, ttl |-> encodeTTL(seconds),
                               decoded |-> decodeTTL(encodeTTL(seconds))])
  /\ UNCHANGED <<store, honoursQuery, stableIds, clientOf, instance, http, deleteMutex, plan, hist, pc,
                 op, ep, recordsToDelete, i, record, records, createdRecords, got, err,
                 trace>>

\* the TTL codec alone: no goroutine makes a call of the client
InitCodec ==
  InitWith({{}}, {[p \in Threads |-> <<>>]}, {TRUE}, {OneClient})

SpecCodec == InitCodec /\ [][ConvertTTL]_vars

\* the records recordsMatch is applied to: of every supported kind and of
\* one the client does not know, alike in some fields and not in others
A1 == [BlankRecord EXCEPT !.ID = 1, !.Name = "multi.example.com", !.Type = "A",
                          !.Address = ip1, !.Comment = DefaultComment]
MX1 == [BlankRecord EXCEPT !.ID = 1, !.Name = "multi.example.com", !.Type = "MX",
                           !.MXPreference = <<"10">>, !.MXExchange = <<"smtp.example.com">>,
                           !.Comment = DefaultComment]
SRV1 == [BlankRecord EXCEPT !.ID = 1, !.Name = "multi.example.com", !.Type = "SRV",
                            !.SrvPriority = <<"10">>, !.SrvWeight = <<"20">>,
                            !.SrvPort = <<"5060">>, !.SrvTarget = <<"sip.example.com">>,
                            !.Comment = DefaultComment]
PTR1 == [BlankRecord EXCEPT !.ID = 1, !.Name = "multi.example.com", !.Type = "PTR",
                            !.Address = ip1, !.Comment = DefaultComment]

MatchPool ==
  { A1,
    [A1 EXCEPT !.ID = 2, !.TTL = <<1, "h">>, !.Comment = "manual", !.Disabled = "true"],
    [A1 EXCEPT !.ID = 3, !.CName = host],
    [A1 EXCEPT !.Address = ip2],
    [A1 EXCEPT !.Name = "other.example.com"],
    [A1 EXCEPT !.Type = "AAAA"],
    [A1 EXCEPT !.Type = "AAAA", !.Address = ip6, !.TTL = <<30, "m">>],
    [A1 EXCEPT !.Type = "CNAME", !.Address = <<>>, !.CName = host],
    [A1 EXCEPT !.Type = "CNAME", !.Address = ip1, !.CName = host, !.ID = 2],
    [A1 EXCEPT !.Type = "CNAME", !.Address = <<>>, !.CName = ns1],
    [A1 EXCEPT !.Type = "TXT", !.Address = <<>>, !.Text = txt1],
    [A1 EXCEPT !.Type = "TXT", !.Address = <<>>, !.Text = host, !.Comment = "manual"],
    [A1 EXCEPT !.Type = "NS", !.Address = <<>>, !.NS = ns1],
    [A1 EXCEPT !.Type = "NS", !.Address = <<>>, !.NS = host],
    MX1,
    [MX1 EXCEPT !.ID = 2, !.Comment = "manual", !.TTL = <<1, "d">>],
    [MX1 EXCEPT !.MXPreference = <<"20">>],
    [MX1 EXCEPT !.MXExchange = <<"smtp2.example.com">>],
    SRV1,
    [SRV1 EXCEPT !.ID = 2, !.Disabled = "true"],
    [SRV1 EXCEPT !.SrvPriority = <<"20">>],
    [SRV1 EXCEPT !.SrvWeight = <<"10">>],
    [SRV1 EXCEPT !.SrvPort = <<"5061">>],
    [SRV1 EXCEPT !.SrvTarget = <<"sip2.example.com">>],
    PTR1,
    [PTR1 EXCEPT !.ID = 2, !.Address = ip2, !.TTL = <<1, "h">>],
    [PTR1 EXCEPT !.Comment = "manual"],
    [PTR1 EXCEPT !.Name = "other.example.com"] }

\* the number of records recordsMatch is applied to together
MaxRecords == MaxCalls + 1

\* recordsMatch is applied to one more record and each record before it,
\* in both orders, and to the record and itself
MatchRecords ==
  /\ Len(cases) < MaxRecords
  /\ \E r \in MatchPool :
       cases' = Append(cases,
                  [record |-> r,
                   matches |-> [j \in 1..(Len(cases) + 1) |->
                                  LET other == IF j <= Len(cases) THEN cases[j].record ELSE r
                                  IN [fwd |-> recordsMatch(other, r),
                                      back |-> recordsMatch(r, other)]]])
  /\ UNCHANGED <<store, honoursQuery, stableIds, clientOf, instance, http, deleteMutex, plan, hist, pc,
                 op, ep, recordsToDelete, i, record, records, createdRecords, got, err,
                 trace>>

\* recordsMatch alone: no goroutine makes a call of the client
InitMatcher ==
  InitWith({{}}, {[p \in Threads |-> <<>>]}, {TRUE}, {OneClient})

SpecMatcher == InitMatcher /\ [][MatchRecords]_vars

\* each goroutine its own client instance, in turn: deleteMutex of one
\* client does not hold back a goroutine of the other
TwoClients == [p \in Threads |-> ((p - 1) % 2) + 1]

\* one goroutine per client instance makes a call, the others make none
TwoClientCallers ==
  {[p \in Threads |-> IF p \in Clients THEN ConcurrentPlans[f[p]] ELSE <<>>] :
     f \in {g \in [Clients -> 1..Len(ConcurrentPlans)] : g[1] <= g[2]}}

\* two client instances on one store that honours the query
InitTwoClients == InitWith(SmallStores, TwoClientCallers, {TRUE}, {TwoClients})

SpecTwoClients == InitTwoClients /\ [][Next]_vars

\* what one goroutine does to see its own writes: a create or a delete, and
\* then a read of the name or of every name
ReadBackPlans ==
  {<<DoCreate(e), DoGet(name)>> : e \in EndpointPool, name \in NamePool}
    \cup {<<DoDelete(e), DoGet(name)>> : e \in EndpointPool, name \in NamePool}

ReadBackCallers == {[p \in Threads |-> IF p = 1 THEN calls ELSE <<>>] : calls \in ReadBackPlans}

\* one goroutine that reads after it has written
InitReadBack == InitWith(InitStores, ReadBackCallers, {TRUE}, {OneClient})

SpecReadBack == InitReadBack /\ [][Next]_vars

\* an update as the caller makes it: the old endpoint is what it created,
\* then the old endpoint is deleted and the new one created, and the name is
\* read; the target lists of old and new overlap or not
mx2 == <<"20", "smtp2.example.com">>

UpdatePairs ==
  { <<Endpoint("multi.example.com", "A", <<ip1, ip2>>), Endpoint("multi.example.com", "A", <<ip1>>)>>,
    <<Endpoint("multi.example.com", "A", <<ip1>>), Endpoint("multi.example.com", "A", <<ip1, ip2>>)>>,
    <<Endpoint("multi.example.com", "A", <<ip1>>), Endpoint("multi.example.com", "A", <<ip2>>)>>,
    <<Endpoint("multi.example.com", "MX", <<mx1>>), Endpoint("multi.example.com", "MX", <<mx2>>)>>,
    <<Endpoint("multi.example.com", "SRV", <<srv1>>), Endpoint("multi.example.com", "SRV", <<srv1>>)>> }

UpdatePlans ==
  {<<DoCreate(u[1]), DoDelete(u[1]), DoCreate(u[2]), DoGet(u[2].DNSName)>> : u \in UpdatePairs}

UpdateCallers == {[p \in Threads |-> IF p = 1 THEN calls ELSE <<>>] : calls \in UpdatePlans}

\* stores that hold no owned record of the name and kind of an update:
\* records with another comment, of another name, of another kind
UpdateStores == StoresOf(SubSeq(InitPool, 3, 5))

\* one goroutine that updates an endpoint of its own
InitUpdate == InitWith(UpdateStores, UpdateCallers, {TRUE}, {OneClient})

SpecUpdate == InitUpdate /\ [][Next]_vars

\* records without a target the client can derive: an A record whose
\* address is not set and a record of a kind the client does not know, next
\* to records with a target
BlankPool ==
  << NewDNSRecord([Endpoint("multi.example.com", "A", <<>>) EXCEPT !.Comment = DefaultComment], ip1),
     NewDNSRecord([Endpoint("multi.example.com", "A", <<>>) EXCEPT !.Comment = DefaultComment], ip2),
     NewDNSRecord([Endpoint("multi.example.com", "A", <<>>) EXCEPT !.Comment = DefaultComment],
                  EmptyStr),
     [NewDNSRecord([Endpoint("multi.example.com", "PTR", <<>>) EXCEPT !.Comment = DefaultComment],
                   EmptyStr) EXCEPT !.Address = ip1] >>

\* calls with endpoints whose target list holds the empty string, or one
\* target several times
OddPlans ==
  {<<DoDelete(e)>> : e \in { Endpoint("multi.example.com", "A", <<EmptyStr>>),
                              Endpoint("multi.example.com", "A", <<ip1, EmptyStr>>),
                              Endpoint("multi.example.com", "A", <<EmptyStr, ip1, ip2>>),
                              Endpoint("multi.example.com", "A", <<ip1, ip1>>),
                              Endpoint("multi.example.com", "A", <<ip1, ip2, ip1>>),
                              Endpoint("multi.example.com", "PTR", <<EmptyStr>>),
                              Endpoint("multi.example.com", "PTR", <<ip1, EmptyStr>>) }}
    \cup {<<DoCreate(Endpoint("multi.example.com", "A", <<ip1>>))>>,
          <<DoGet("multi.example.com")>>}

OddCallers == {[p \in Threads |-> IF p = 1 THEN calls ELSE <<>>] : calls \in OddPlans}

\* one goroutine, a store that holds records without a target and that may
\* or may not apply the query of a GET
InitOddTargets == InitWith(StoresOf(BlankPool), OddCallers, {TRUE, FALSE}, {OneClient})

SpecOddTargets == InitOddTargets /\ [][Next]_vars

\* one goroutine and a store that applies the query and never renumbers
InitStable ==
  /\ instance = [c \in Clients |-> Constructed]
  /\ http = <<>>
  /\ InitOps(InitStores, SeqCallers, {TRUE}, {OneClient}, {TRUE})

SpecStable == InitStable /\ [][Next]_vars

\* two goroutines of one client: goroutine 1 deletes the two addresses of
\* the name, and goroutine 2 deletes them too, at once or after another
\* call, so that a delete finds the mutex held
LivePlans ==
  << <<DoDelete(Endpoint("multi.example.com", "A", <<ip1, ip2>>))>>,
     <<DoCreate(Endpoint("multi.example.com", "A", <<ip1>>)),
       DoDelete(Endpoint("multi.example.com", "A", <<ip1, ip2>>))>>,
     <<DoGet("multi.example.com"),
       DoDelete(Endpoint("multi.example.com", "A", <<ip1, ip2>>))>> >>

LiveCallers ==
  {[p \in Threads |-> IF p = 1 THEN LivePlans[1]
                      ELSE IF p = 2 THEN LivePlans[k] ELSE <<>>] :
     k \in 1..Len(LivePlans)}

\* the store holds the two owned records of the name, or nothing
LiveStores == {{}, {[InitPool[k] EXCEPT !.ID = k] : k \in 1..2}}

InitLive == InitWith(LiveStores, LiveCallers, {TRUE}, {OneClient})

\* a step of goroutine p other than the return of Lock: a call it starts, a
\* remote call of it that returns, with a response or with an error, or
\* its return to the caller
Running(p) ==
  \/ DeleteCall(p)
  \/ DeleteFetchFail(p)
  \/ DeleteFetch(p)
  \/ DeleteRefetchFail(p)
  \/ DeleteRefetch(p)
  \/ DeleteRequestFail(p)
  \/ DeleteRequest(p)
  \/ CreateCall(p)
  \/ CreatePutFail(p)
  \/ CreatePut(p)
  \/ GetRecordsFail(p)
  \/ GetRecords(p)
  \/ Return(p)

\* the scheduling: a goroutine that can run does run and every remote call
\* returns (weak fairness of its steps), and a goroutine blocked in
\* sync.Mutex.Lock gets the mutex when it is unlocked again and again
\* (strong fairness of DeleteLock: a waiter that keeps losing is handed the
\* mutex by Unlock)
Fairness ==
  \A p \in Threads : WF_vars(Running(p)) /\ SF_vars(DeleteLock(p))

\* several goroutines on one client under fair scheduling
SpecLive == InitLive /\ [][Next]_vars /\ Fairness

\* ------------------------------------------------------------ the claims
Range(seq) == {seq[k] : k \in DOMAIN seq}

\* goroutine p has returned from an operation of this kind
Returned(p, kind) == pc[p] = "done" /\ op[p] = kind

\* the number of records of a store with this content
Count(S, content) == Cardinality({r \in S : Content(r) = content})

\* a record the endpoint names: owned, of its name and kind, and with one of
\* its targets when it lists targets
Named(r, e) ==
  /\ r.Name = e.DNSName
  /\ r.Type = e.RecordType
  /\ r.Comment = DefaultComment
  /\ (Len(e.Targets) = 0 \/ decodedTarget(r) \in Range(e.Targets))

SimpleKinds == {"A", "AAAA", "CNAME", "TXT", "NS"}

\* C1: renumbering resilience.  With one goroutine, whatever the store held
\* and however it renumbers after each deletion, a DeleteDNSRecords call
\* that lists targets of kind A, AAAA, CNAME, TXT or NS and returns no error
\* leaves no owned record of that name and kind with one of these targets.
C1_RenumberingResilience ==
  \A p \in Threads :
    ( /\ Returned(p, "delete") /\ ~err[p]
      /\ ep[p].RecordType \in SimpleKinds /\ Len(ep[p].Targets) > 0 )
    => ~\E r \in store : Named(r, ep[p])

\* C1 witness: a delete of two targets has returned without error after two
\* deletions, and the second one went to an id other than the one its
\* candidate had in the initial fetch (the store had renumbered it).
C1_Witness ==
  \E p \in Threads :
    /\ Returned(p, "delete") /\ ~err[p]
    /\ ep[p].RecordType \in SimpleKinds
    /\ Len(recordsToDelete[p]) = 2 /\ Deleted(p) = 2
    /\ record[p].ID # recordsToDelete[p][2].ID

\* C2: fresh ids.  The id of every DELETE call of a DeleteDNSRecords
\* invocation comes from a read of that invocation that succeeded and that
\* no DELETE call of the invocation has followed.
C2_FreshId ==
  \A p \in Threads : \A k \in DOMAIN trace[p] :
    trace[p][k].op = "DELETE" =>
      LET n == trace[p][k].rec.Read
      IN /\ n \in 1..(k - 1)
         /\ trace[p][n].op = "GET" /\ trace[p][n].ok
         /\ \A m \in (n + 1)..(k - 1) : trace[p][m].op # "DELETE"

\* C2 witness: an invocation has made its second DELETE call, with an id
\* from the re-fetch that differs from the one captured in the initial fetch.
C2_Witness ==
  \E p \in Threads : \E k \in DOMAIN trace[p] :
    /\ trace[p][k].op = "DELETE" /\ trace[p][k].rec.Read > 1
    /\ trace[p][k].rec.ID # recordsToDelete[p][i[p]].ID
    /\ \E m \in 1..(k - 1) : trace[p][m].op = "DELETE" /\ trace[p][m].ok

\* C3: a delete of some targets leaves the rest alone.  With one goroutine,
\* no step of a DeleteDNSRecords call with explicit targets changes how many
\* records the store holds of any content the endpoint does not name: other
\* targets of the name and kind, other kinds, other names, other comments.
C3_PartialDeleteFrame ==
  [][ \A p \in Threads :
        (op[p] = "delete" /\ Len(ep[p].Targets) > 0) =>
          \A r \in store \cup store' :
            ~Named(r, ep[p]) => Count(store', Content(r)) = Count(store, Content(r)) ]_vars

\* C3 witness: a delete of explicit targets has deleted a record and
\* returned, and the store still holds an owned record of the same name and
\* kind with another target.
C3_Witness ==
  \E p \in Threads :
    /\ Returned(p, "delete") /\ ~err[p] /\ Deleted(p) >= 1
    /\ Len(ep[p].Targets) > 0
    /\ \E r \in store : /\ r.Name = ep[p].DNSName /\ r.Type = ep[p].RecordType
                        /\ r.Comment = DefaultComment /\ ~Named(r, ep[p])

\* C4: no record with a comment other than DefaultComment is a candidate of
\* DeleteDNSRecords, whatever the store put in the response.
C4_CandidatesOwned ==
  \A p \in Threads : \A k \in DOMAIN recordsToDelete[p] :
    recordsToDelete[p][k].Comment = DefaultComment

\* C4 witness: the store ignores the query and holds a record with another
\* comment whose name, kind and target are those of a candidate.
C4_Witness ==
  \E p \in Threads : \E k \in DOMAIN recordsToDelete[p] : \E r \in store :
    /\ ~honoursQuery
    /\ r.Comment # DefaultComment
    /\ recordsMatch(recordsToDelete[p][k], r)
    /\ getRecordTarget(r) \in Range(ep[p].Targets)

\* C5: the ownership invariant of the store.  With several goroutines of one
\* client and a store that honours the query, no step changes how many
\* records the store holds of any content with a comment other than
\* DefaultComment, and every record a step adds has DefaultComment.
C5_OwnershipInvariant ==
  [][ /\ \A r \in store \cup store' :
           r.Comment # DefaultComment =>
             Count(store', Content(r)) = Count(store, Content(r))
      /\ \A r \in store' :
           Count(store', Content(r)) > Count(store, Content(r)) =>
             r.Comment = DefaultComment ]_vars

\* C5 witness: the store has held more records than any initial store
\* holds, so a create, whose caller asked for another comment, has added
\* one; a delete has removed a record since; and the store holds a record
\* of the name, kind and target of the delete with another comment.
C5_Witness ==
  \E p \in Threads : \E r \in store :
    /\ op[p] = "delete" /\ Deleted(p) >= 1
    /\ Cardinality(store) + Deleted(p) > MaxInit
    /\ r.Comment # DefaultComment
    /\ r.Name = ep[p].DNSName /\ r.Type = ep[p].RecordType
    /\ getRecordTarget(r) \in Range(ep[p].Targets)

\* C6: mutual exclusion of deletes.  At most one goroutine is between the
\* Lock of DeleteDNSRecords and its return, so the GET and DELETE calls of
\* two invocations never interleave.
C6_DeleteMutualExclusion ==
  \A p, q \in Threads :
    (pc[p] \in {"fetch", "loop", "delete"} /\ pc[q] \in {"fetch", "loop", "delete"}) => p = q

\* C6 witness: one invocation is between two of its remote calls while
\* another goroutine waits in DeleteDNSRecords for the mutex.
C6_Witness ==
  \E p, q \in Threads :
    /\ pc[p] = "loop" /\ Deleted(p) >= 1
    /\ pc[q] = "lock"

\* the last remote call goroutine p has made
LastCall(p) == trace[p][Len(trace[p])]

\* C7: delete idempotence.  With one goroutine, when the response to the
\* initial fetch of DeleteDNSRecords arrives while the store holds no record
\* the endpoint names, or directly after a DeleteDNSRecords call of the same
\* endpoint that returned no error, the call ends there with no error and
\* with no DELETE call.
C7_DeleteIdempotence ==
  [][ \A p \in Threads :
        ( /\ pc[p] = "fetch"
          /\ Len(trace'[p]) = Len(trace[p]) + 1
          /\ trace'[p][Len(trace'[p])].ok
          /\ \/ ~\E r \in store : Named(r, ep[p])
             \/ /\ hist[p] # <<>>
                /\ hist[p][Len(hist[p])].op = "delete"
                /\ hist[p][Len(hist[p])].ep = ep[p]
                /\ ~hist[p][Len(hist[p])].err )
        => /\ pc'[p] = "done"
           /\ ~err'[p]
           /\ \A k \in DOMAIN trace'[p] : trace'[p][k].op # "DELETE"
           /\ store' = store ]_vars

\* C7 witness: the second of two DeleteDNSRecords calls of one endpoint has
\* returned with no error after one GET call and nothing else; the first
\* returned no error and had deleted a record.
C7_Witness ==
  \E p \in Threads :
    /\ Returned(p, "delete") /\ ~err[p]
    /\ Len(trace[p]) = 1 /\ trace[p][1].op = "GET" /\ trace[p][1].ok
    /\ hist[p] # <<>>
    /\ hist[p][1].op = "delete" /\ hist[p][1].ep = ep[p]
    /\ ~hist[p][1].err /\ hist[p][1].deleted >= 1

\* C8: create-then-delete round trip.  With one goroutine, after
\* CreateDNSRecords(e) returned no error and DeleteDNSRecords(e) directly
\* after it returned no error, the store holds no owned record of the name
\* and kind of e with one of the targets of e, for every supported kind.
C8_CreateDeleteRoundTrip ==
  \A p \in Threads :
    ( /\ Returned(p, "delete") /\ ~err[p]
      /\ hist[p] # <<>>
      /\ hist[p][Len(hist[p])].op = "create"
      /\ hist[p][Len(hist[p])].ep = ep[p]
      /\ ~hist[p][Len(hist[p])].err )
    => ~\E r \in store : Named(r, ep[p])

\* the fields of a record other than its id and its target
Shared(r) ==
  [r EXCEPT !.ID = 0, !.Read = 0,
            !.Address = BlankRecord.Address, !.CName = BlankRecord.CName,
            !.Text = BlankRecord.Text, !.NS = BlankRecord.NS,
            !.MXExchange = BlankRecord.MXExchange,
            !.MXPreference = BlankRecord.MXPreference,
            !.SrvTarget = BlankRecord.SrvTarget, !.SrvPort = BlankRecord.SrvPort,
            !.SrvPriority = BlankRecord.SrvPriority,
            !.SrvWeight = BlankRecord.SrvWeight]

\* C9: create decomposition.  A CreateDNSRecords call on an endpoint with N
\* targets that returned no error has made exactly N PUT calls, the k-th for
\* the k-th target, and returns N records, the k-th being the one the k-th
\* call sent; the records have the name and kind of the endpoint and differ
\* in nothing but target and id.
C9_CreateDecomposition ==
  \A p \in Threads :
    (Returned(p, "create") /\ ~err[p]) =>
      /\ Len(trace[p]) = Len(ep[p].Targets)
      /\ Len(createdRecords[p]) = Len(ep[p].Targets)
      /\ \A k \in DOMAIN trace[p] :
           /\ trace[p][k].op = "PUT" /\ trace[p][k].ok
           /\ decodedTarget(trace[p][k].rec) = ep[p].Targets[k]
           /\ Content(createdRecords[p][k]) = Content(trace[p][k].rec)
           /\ createdRecords[p][k].Name = ep[p].DNSName
           /\ createdRecords[p][k].Type = ep[p].RecordType
      /\ \A j, k \in DOMAIN createdRecords[p] :
           /\ Shared(createdRecords[p][j]) = Shared(createdRecords[p][k])
           /\ j # k => createdRecords[p][j].ID # createdRecords[p][k].ID

\* C9 witness: a create of an endpoint with two targets has returned no error.
C9_Witness ==
  \E p \in Threads :
    /\ Returned(p, "create") /\ ~err[p]
    /\ Len(ep[p].Targets) = 2
    /\ Len(createdRecords[p]) = 2
    /\ decodedTarget(createdRecords[p][1]) # decodedTarget(createdRecords[p][2])

CommentPool == {"", "manual", "Custom Comment", DefaultComment}

\* C11: ownership stamping on create.  Every record CreateDNSRecords sends
\* in a PUT call has the comment DefaultComment and the disabled and
\* address-list values of the caller, and it is the record the call would
\* send had the caller supplied any other comment.
C11_OwnershipStamping ==
  \A p \in Threads : \A k \in DOMAIN trace[p] :
    (op[p] = "create" /\ trace[p][k].op = "PUT") =>
      /\ trace[p][k].rec.Comment = DefaultComment
      /\ trace[p][k].rec.Disabled = ep[p].Disabled
      /\ trace[p][k].rec.AddressList = ep[p].AddressList
      /\ \A c \in CommentPool :
           trace[p][k].rec =
             [NewDNSRecord([ep[p] EXCEPT !.Comment = c], ep[p].Targets[k])
                EXCEPT !.Comment = DefaultComment]

\* C11 witness: a create whose caller supplied a comment of its own, disabled
\* and an address list has sent a record, and the store holds it.
C11_Witness ==
  \E p \in Threads : \E r \in store :
    /\ op[p] = "create" /\ Succeeded(p, "PUT") # {}
    /\ ep[p].Comment \notin {"", DefaultComment}
    /\ ep[p].Disabled = "true" /\ ep[p].AddressList = "mylist"
    /\ Content(r) = Content(trace[p][1].rec)

\* C12: delete failure semantics.  The step of DeleteDNSRecords in which a
\* remote call fails (the initial fetch, a re-fetch or a DELETE) ends the
\* call with an error and leaves the store as it is; the call makes no
\* remote call after it, and none of its calls is a PUT.
C12_DeleteFailure ==
  [][ \A p \in Threads :
        /\ ( /\ op[p] = "delete"
             /\ Len(trace'[p]) = Len(trace[p]) + 1
             /\ ~trace'[p][Len(trace'[p])].ok )
           => /\ pc'[p] = "done" /\ err'[p]
              /\ store' = store
              /\ \A k \in DOMAIN trace'[p] : trace'[p][k].op \in {"GET", "DELETE"}
        /\ (op[p] = "delete" /\ pc[p] = "done") => trace'[p] = <<>> ]_vars

\* C12 witness: a delete has returned an error for a failed re-fetch or
\* DELETE call after it had deleted a record, and no record the endpoint
\* names with the content of the deleted one is in the store.
C12_Witness ==
  \E p \in Threads :
    /\ Returned(p, "delete") /\ err[p]
    /\ Deleted(p) >= 1 /\ ~LastCall(p).ok
    /\ \A k \in Succeeded(p, "DELETE") :
         ~\E r \in store : Content(r) = Content(trace[p][k].rec)

OwnedOfKind(r, e) ==
  r.Name = e.DNSName /\ r.Type = e.RecordType /\ r.Comment = DefaultComment

\* C14: delete-all on empty targets.  With one goroutine, the candidates of
\* a DeleteDNSRecords call whose endpoint lists no targets are the fetched
\* records of its name and kind with DefaultComment, each once and whatever
\* its target, and when the call has returned no error the store holds no
\* owned record of that name and kind.
C14_DeleteAll ==
  [][ \A p \in Threads :
        /\ ( /\ pc[p] = "fetch" /\ Len(ep[p].Targets) = 0
             /\ Len(trace'[p]) = Len(trace[p]) + 1
             /\ trace'[p][Len(trace'[p])].ok )
           => /\ {recordsToDelete'[p][k].ID : k \in DOMAIN recordsToDelete'[p]} =
                   {r.ID : r \in {q \in serverRead(store, ep[p].DNSName, DefaultComment,
                                                   honoursQuery) : OwnedOfKind(q, ep[p])}}
              /\ Len(recordsToDelete'[p]) =
                   Cardinality({q \in store : OwnedOfKind(q, ep[p])})
        /\ ( /\ op'[p] = "delete" /\ pc'[p] = "done" /\ ~err'[p]
             /\ Len(ep'[p].Targets) = 0 )
           => ~\E r \in store' : OwnedOfKind(r, ep'[p]) ]_vars

\* C14 witness: a delete of an endpoint without targets has returned no
\* error after deleting two records with different targets.
C14_Witness ==
  \E p \in Threads :
    /\ Returned(p, "delete") /\ ~err[p]
    /\ Len(ep[p].Targets) = 0
    /\ Deleted(p) = 2
    /\ getRecordTarget(recordsToDelete[p][1]) # getRecordTarget(recordsToDelete[p][2])

\* C15: creates bypass the delete lock.  A goroutine in CreateDNSRecords or
\* GetDNSRecordsByName never holds deleteMutex, and deleteMutex held by
\* another goroutine does not keep it from its next step: a create that is
\* due can start, and a create call that the store has room for can be made.
C15_CreateBypassesLock ==
  \A p \in Threads :
    /\ op[p] \in {"create", "get"} => deleteMutex[clientOf[p]] # p
    /\ (NoneReturning /\ pc[p] = "idle" /\ IsNext(p, "create")) => ENABLED CreateCall(p)
    /\ (NoneReturning /\ pc[p] = "idle" /\ IsNext(p, "get")) => ENABLED GetRecords(p)
    /\ (NoneReturning /\ pc[p] = "put" /\ Cardinality(store) < MaxStore)
         => ENABLED CreatePut(p)

\* C15 witness: a DeleteDNSRecords call holds deleteMutex and is about to
\* make a DELETE call, and a CreateDNSRecords call of another goroutine of
\* the same client has made its create call.
C15_Witness ==
  \E p, q \in Threads :
    /\ clientOf[p] = clientOf[q]
    /\ pc[p] = "delete" /\ deleteMutex[clientOf[p]] = p
    /\ op[q] = "create" /\ Succeeded(q, "PUT") # {}
    /\ \E r \in store : r.ID = record[p].ID /\ recordsMatch(r, record[p])

\* goroutine p is between the Lock of DeleteDNSRecords and its return
InDelete(p) == pc[p] \in {"fetch", "loop", "delete"}

\* C16: the delete lock belongs to one client instance.  Two goroutines
\* that are both between Lock and return are goroutines of different
\* clients, and a DeleteDNSRecords call whose own client's mutex is free
\* goes on whatever the mutex of the other client: the calls of two
\* instances are not serialised.
C16_LockPerClient ==
  \A p, q \in Threads :
    /\ (p # q /\ InDelete(p) /\ InDelete(q)) => clientOf[p] # clientOf[q]
    /\ (NoneReturning /\ pc[p] = "lock" /\ deleteMutex[clientOf[p]] = 0)
         => ENABLED DeleteLock(p)

\* C16 witness: the gap.  While a delete of the other client instance was
\* running, a DELETE call has removed a record that does not recordsMatch
\* the candidate it was made for.
C16_Witness ==
  \E p, q \in Threads : \E k \in DOMAIN trace[p] :
    /\ clientOf[p] # clientOf[q]
    /\ op[p] = "delete" /\ op[q] = "delete"
    /\ trace[p][k].op = "DELETE" /\ trace[p][k].ok
    /\ ~recordsMatch(trace[p][k].rec, trace[p][k].hit)

Accepted(call) ==
  ~call.outcome.failed /\ call.outcome.status >= 200 /\ call.outcome.status <= 299

\* C18 as stated: every doRequest call sends exactly one request, returns
\* the response and no error iff the status is in [200,299], and returns an
\* error and no response otherwise.
C18_TransportOutcome_Original ==
  \A k \in DOMAIN http :
    /\ http[k].result.sent = 1
    /\ (http[k].result.resp /\ ~http[k].result.err) <=> Accepted(http[k])
    /\ ~Accepted(http[k]) => (http[k].result.err /\ ~http[k].result.resp)

\* C18: transport outcome.  Every doRequest call makes at most one c.Do
\* call, and exactly one iff http.NewRequest built the request; it returns
\* the response and no error iff the request was built and the status is in
\* [200,299], and an error and no response in every other case: the request
\* not built, a network-level failure, any other status.  One doRequest
\* call never makes a second c.Do call.
C18_TransportOutcome ==
  \A k \in DOMAIN http :
    /\ http[k].result.sent \in {0, 1}
    /\ http[k].result.sent = 1 <=> http[k].built
    /\ (http[k].result.resp /\ ~http[k].result.err)
         <=> (http[k].built /\ Accepted(http[k]))
    /\ ~(http[k].built /\ Accepted(http[k]))
         => (http[k].result.err /\ ~http[k].result.resp)

\* C18 witness: one doRequest call returned the response for the status 299,
\* and another returned an error for the status 300 after one c.Do call.
C18_Witness ==
  \E j, k \in DOMAIN http :
    /\ http[j].built /\ http[j].outcome = Status(299)
    /\ http[j].result.resp /\ ~http[j].result.err
    /\ http[k].built /\ http[k].outcome = Status(300)
    /\ http[k].result.err /\ http[k].result.sent = 1

\* C19: ownership isolation of reads.  Every GET call of the client sets the
\* query parameters type (the seven supported kinds) and comment
\* (DefaultComment), and name exactly when the name asked for is not empty;
\* with a store that applies the query, the result of GetDNSRecordsByName
\* holds no record with another comment: it holds the owned records of the
\* store, of the name asked for when one is given, each once.
C19_ReadIsolation ==
  \A p \in Threads :
    /\ \A k \in DOMAIN trace[p] :
         trace[p][k].op = "GET" =>
           /\ trace[p][k].query.type = <<"A", "AAAA", "CNAME", "TXT", "MX", "SRV", "NS">>
           /\ trace[p][k].query.comment = DefaultComment
           /\ trace[p][k].query.name = ep[p].DNSName
           /\ trace[p][k].query.keys =
                IF ep[p].DNSName = "" THEN {"type", "comment"}
                ELSE {"type", "comment", "name"}
    /\ (honoursQuery /\ Returned(p, "get") /\ ~err[p]) =>
         /\ \A k \in DOMAIN got[p] : got[p][k].Comment = DefaultComment
         /\ {got[p][k].ID : k \in DOMAIN got[p]} =
              {r.ID : r \in {q \in store : /\ q.Comment = DefaultComment
                                           /\ ep[p].DNSName \in {"", q.Name}}}
         /\ Len(got[p]) = Cardinality({got[p][k].ID : k \in DOMAIN got[p]})

\* C19 witness: a read of a name has returned a record while the store holds
\* a record of that name with another comment.
C19_Witness ==
  \E p \in Threads : \E r \in store :
    /\ honoursQuery
    /\ Returned(p, "get") /\ ~err[p]
    /\ ep[p].DNSName # "" /\ Len(got[p]) >= 1
    /\ r.Name = ep[p].DNSName /\ r.Comment # DefaultComment

\* the (name, kind) pairs of the records of a read
Pairs(flat) == {<<flat[k].Name, flat[k].Type>> : k \in DOMAIN flat}

\* C20: aggregation.  The endpoints of a list-owned read are one for every
\* (name, kind) pair of the records read, and no more; the targets of the
\* endpoint of a pair are, order ignored, the decoded targets of the records
\* of the pair, one target for each record.
C20_Aggregation ==
  \A p \in Threads :
    (Returned(p, "get") /\ ~err[p]) =>
      LET endpoints == AggregateRecords(got[p])
      IN /\ Len(endpoints) = Cardinality(Pairs(got[p]))
         /\ \A pair \in Pairs(got[p]) :
              LET of == {k \in DOMAIN got[p] : <<got[p][k].Name, got[p][k].Type>> = pair}
                  es == {k \in DOMAIN endpoints :
                           <<endpoints[k].DNSName, endpoints[k].RecordType>> = pair}
              IN /\ Cardinality(es) = 1
                 /\ \A k \in es :
                      /\ Range(endpoints[k].Targets) = {decodedTarget(got[p][j]) : j \in of}
                      /\ Len(endpoints[k].Targets) = Cardinality(of)

\* C20 witness: a read has returned two records of one name and kind with
\* different targets, which make one endpoint with the two targets.
C20_Witness ==
  \E p \in Threads :
    /\ Returned(p, "get") /\ ~err[p]
    /\ Len(got[p]) = 2
    /\ <<got[p][1].Name, got[p][1].Type>> = <<got[p][2].Name, got[p][2].Type>>
    /\ decodedTarget(got[p][1]) # decodedTarget(got[p][2])
    /\ Len(AggregateRecords(got[p])) = 1
    /\ Len(AggregateRecords(got[p])[1].Targets) = 2

\* the records of a response with their ids, whatever call they were read in
Records(response) == {[response[k] EXCEPT !.Read = 0] : k \in DOMAIN response}

\* the last call goroutine p has returned from
LastReturned(p) == hist[p][Len(hist[p])]

\* C21: no caching.  Every GetDNSRecordsByName call that returns no error has
\* made one GET call and nothing else, and its result is the records the
\* store holds for the query at that moment, each once.  So with one
\* goroutine the result of a read of the name directly after a create that
\* returned no error holds the records the create returned, and the result
\* of a read directly after a delete that returned no error holds no record
\* with the content of a record the delete removed.
C21_NoCaching ==
  /\ [][ \A p \in Threads :
          (op'[p] = "get" /\ pc'[p] = "done" /\ pc[p] = "idle" /\ ~err'[p]) =>
            /\ Len(trace'[p]) = 1 /\ trace'[p][1].op = "GET" /\ trace'[p][1].ok
            /\ Records(got'[p]) =
                 serverRead(store, ep'[p].DNSName, DefaultComment, honoursQuery)
            /\ Len(got'[p]) = Cardinality(Records(got'[p])) ]_vars
  /\ [](\A p \in Threads :
          (Returned(p, "get") /\ ~err[p] /\ hist[p] # <<>> /\ ~LastReturned(p).err) =>
            /\ (LastReturned(p).op = "create"
                   /\ ep[p].DNSName \in {"", LastReturned(p).ep.DNSName})
                 => /\ Len(LastReturned(p).created) = Len(LastReturned(p).ep.Targets)
                    /\ Records(LastReturned(p).created) \subseteq Records(got[p])
            /\ LastReturned(p).op = "delete"
                 => \A k \in DOMAIN got[p] : Content(got[p][k]) \notin LastReturned(p).removed)

\* C21 witness: a read directly after a delete that removed a record has
\* returned a record of the same name and kind, the one the delete left.
C21_Witness ==
  \E p \in Threads :
    /\ Returned(p, "get") /\ ~err[p] /\ hist[p] # <<>>
    /\ LastReturned(p).op = "delete" /\ ~LastReturned(p).err
    /\ LastReturned(p).removed # {}
    /\ \E k \in DOMAIN got[p] :
         /\ got[p][k].Name = LastReturned(p).ep.DNSName
         /\ got[p][k].Type = LastReturned(p).ep.RecordType

\* C21 witness of the other half: a read directly after a create of two
\* targets has returned the two records next to one the store held before.
C21_WitnessCreate ==
  \E p \in Threads :
    /\ Returned(p, "get") /\ ~err[p] /\ hist[p] # <<>>
    /\ LastReturned(p).op = "create" /\ ~LastReturned(p).err
    /\ Len(LastReturned(p).created) = 2 /\ Len(got[p]) = 3

\* C22: codec round trip.  For every supported kind and every target of an
\* endpoint that converts, getRecordTarget of the record CreateDNSRecords
\* sends for the target is the target.
C22_CodecRoundTrip ==
  \A p \in Threads : \A k \in DOMAIN trace[p] :
    (op[p] = "create" /\ trace[p][k].op = "PUT") =>
      getRecordTarget(trace[p][k].rec) = ep[p].Targets[k]

\* C23: update as delete-then-create.  With one goroutine, when the store
\* held the records of the old endpoint as its only owned records of the
\* name and kind, and DeleteDNSRecords of the old endpoint and then
\* CreateDNSRecords of the new one have returned no error, the owned
\* records of the name and kind are one for each target of the new endpoint
\* and no other.
C23_UpdateAsDeleteCreate ==
  \A p \in Threads :
    ( /\ Returned(p, "create") /\ ~err[p] /\ Len(hist[p]) = 2
      /\ hist[p][1].op = "create" /\ ~hist[p][1].err
      /\ hist[p][2].op = "delete" /\ ~hist[p][2].err /\ hist[p][2].ep = hist[p][1].ep
      /\ ep[p].DNSName = hist[p][2].ep.DNSName
      /\ ep[p].RecordType = hist[p][2].ep.RecordType )
    => LET owned == {r \in store : OwnedOfKind(r, ep[p])}
       IN /\ {decodedTarget(r) : r \in owned} = Range(ep[p].Targets)
          /\ Cardinality(owned) = Len(ep[p].Targets)

\* an endpoint the conversion has to refuse: no target, no name, or an MX
\* or SRV target with fewer whitespace-separated fields than the kind needs
Invalid(e) ==
  \/ Len(e.Targets) = 0
  \/ e.DNSName = ""
  \/ e.RecordType = "MX" /\ \E k \in DOMAIN e.Targets : Len(e.Targets[k]) < 2
  \/ e.RecordType = "SRV" /\ \E k \in DOMAIN e.Targets : Len(e.Targets[k]) < 4

C25_TTLCodec ==
  \A k \in DOMAIN cases :
    LET seconds == cases[k].seconds
        units == {u \in {"d", "h", "m", "s"} : seconds % UnitSeconds(u) = 0}
        coarsest == CHOOSE u \in units : \A v \in units : UnitSeconds(u) >= UnitSeconds(v)
    IN /\ cases[k].ttl = <<seconds \div UnitSeconds(coarsest), coarsest>>
       /\ cases[k].decoded = seconds
       /\ seconds = 86400 => cases[k].ttl = <<1, "d">>
       /\ seconds = 7200 => cases[k].ttl = <<2, "h">>
       /\ seconds = 3600 => cases[k].ttl = <<1, "h">>
       /\ seconds = 1800 => cases[k].ttl = <<30, "m">>

\* C25 witness: 90000 seconds, more than a day and a whole number of hours,
\* came out as "25h", and 3599 seconds as "3599s".
C25_Witness ==
  \E j, k \in DOMAIN cases :
    /\ cases[j].seconds = 90000 /\ cases[j].ttl = <<25, "h">> /\ cases[j].decoded = 90000
    /\ cases[k].seconds = 3599 /\ cases[k].ttl = <<3599, "s">>

\* C26: re-verify before each later delete.  In the remote calls of one
\* DeleteDNSRecords invocation the first call is a read; every DELETE call
\* comes directly after a read of the invocation that succeeded, so two
\* DELETE calls are never adjacent; and when the invocation makes a DELETE
\* call at all, its second call is one.
C26_ReverifyBeforeDelete ==
  \A p \in Threads :
    (op[p] = "delete" /\ trace[p] # <<>>) =>
      /\ trace[p][1].op = "GET"
      /\ \A k \in DOMAIN trace[p] :
           /\ trace[p][k].op \in {"GET", "DELETE"}
           /\ trace[p][k].op = "DELETE" =>
                /\ k >= 2
                /\ trace[p][k - 1].op = "GET" /\ trace[p][k - 1].ok
                /\ trace[p][2].op = "DELETE"

\* C26 witness: an invocation has made a read, a DELETE call, a re-read and
\* a second DELETE call, all of which succeeded.
C26_Witness ==
  \E p \in Threads :
    /\ op[p] = "delete" /\ Len(trace[p]) = 4
    /\ trace[p][2].op = "DELETE" /\ trace[p][3].op = "GET" /\ trace[p][4].op = "DELETE"
    /\ trace[p][2].ok /\ trace[p][4].ok

\* the remote calls of one kind that goroutine p has made in the running
\* operation, failed ones too
Made(p, kind) == {k \in DOMAIN trace[p] : trace[p][k].op = kind}

\* C27: bounded call count.  A DeleteDNSRecords invocation with k candidates
\* makes one remote call when k = 0; when k >= 1 it makes at most 2k: one
\* initial read, at most k-1 re-reads and at most k DELETE calls; and when
\* it has returned after k DELETE calls with no call failed, it has made 2k.
C27_BoundedCalls ==
  \A p \in Threads :
    LET k == Len(recordsToDelete[p])
    IN /\ (op[p] = "delete" /\ k >= 1) =>
            /\ Len(trace[p]) <= 2 * k
            /\ Cardinality(Made(p, "GET")) <= 1 + (k - 1)
            /\ Cardinality(Made(p, "DELETE")) <= k
            /\ Made(p, "GET") \cup Made(p, "DELETE") = DOMAIN trace[p]
       /\ (Returned(p, "delete") /\ k = 0) =>
            Len(trace[p]) = 1 /\ trace[p][1].op = "GET"
       /\ ( /\ Returned(p, "delete") /\ k >= 1 /\ Deleted(p) = k
            /\ \A n \in DOMAIN trace[p] : trace[p][n].ok )
          => Len(trace[p]) = 2 * k

\* C27 witness: an invocation with two candidates has returned after three
\* calls, the second candidate skipped, and so with fewer than 2k.
C27_Witness ==
  \E p \in Threads :
    /\ Returned(p, "delete") /\ ~err[p]
    /\ Len(recordsToDelete[p]) = 2 /\ Len(trace[p]) = 3
    /\ Cardinality(Made(p, "GET")) = 2 /\ Cardinality(Made(p, "DELETE")) = 1

\* C27 witness of the exact count: an invocation with two candidates has
\* returned after four calls, none skipped and none failed.
C27_WitnessExact ==
  \E p \in Threads :
    /\ Returned(p, "delete") /\ ~err[p]
    /\ Len(recordsToDelete[p]) = 2 /\ Len(trace[p]) = 4 /\ Deleted(p) = 2

\* C28: lock release on every exit.  deleteMutex of a client is held by a
\* goroutine exactly while that goroutine is between the Lock of a
\* DeleteDNSRecords call of the client and the return of the call, whatever
\* the way the call returns; so it is free when no such call is in progress,
\* and a call that waits for it then gets it, also after a call that failed.
C28_LockReleased ==
  /\ \A c \in Clients : \A p \in Threads :
       deleteMutex[c] = p <=> (InDelete(p) /\ clientOf[p] = c)
  /\ \A c \in Clients :
       (~\E p \in Threads : InDelete(p) /\ clientOf[p] = c) => deleteMutex[c] = 0
  /\ \A p \in Threads :
       ( /\ NoneReturning /\ pc[p] = "lock"
         /\ ~\E q \in Threads : InDelete(q) /\ clientOf[q] = clientOf[p] )
       => ENABLED DeleteLock(p)

\* C28 witness: a DeleteDNSRecords call holds the mutex and is about to make
\* a DELETE call, after an earlier call of the goroutine returned an error
\* for a failed call in the middle of its loop.
C28_Witness ==
  \E p \in Threads :
    /\ Len(hist[p]) = 1 /\ hist[p][1].op = "delete"
    /\ hist[p][1].err /\ hist[p][1].deleted >= 1
    /\ pc[p] = "delete" /\ deleteMutex[clientOf[p]] = p

\* C29: re-verified deletes respect ownership.  Every DELETE call that
\* DeleteDNSRecords makes for a record taken from a re-fetch is made for a
\* record with the comment DefaultComment, whatever records the response
\* of the re-fetch held.
C29_ReverifiedOwned ==
  \A p \in Threads : \A k \in DOMAIN trace[p] :
    (op[p] = "delete" /\ trace[p][k].op = "DELETE" /\ trace[p][k].rec.Read > 1)
      => trace[p][k].rec.Comment = DefaultComment

\* the fields recordsMatch has to compare for a record of a supported kind
KindFields(r) ==
  CASE r.Type \in {"A", "AAAA"} -> <<r.Address>>
    [] r.Type = "CNAME" -> <<r.CName>>
    [] r.Type = "TXT" -> <<r.Text>>
    [] r.Type = "MX" -> <<r.MXExchange, r.MXPreference>>
    [] r.Type = "SRV" -> <<r.SrvTarget, r.SrvPort, r.SrvPriority, r.SrvWeight>>
    [] r.Type = "NS" -> <<r.NS>>
    [] OTHER -> <<r.Comment>>

\* what recordsMatch returned for the j-th and the k-th record, j <= k
Matched(j, k) == cases[k].matches[j].fwd

\* C30: the semantic matcher.  recordsMatch is false for records of
\* different name or kind; for two records of one name and one of the kinds
\* A, AAAA, CNAME, TXT, MX, SRV, NS it is true iff the fields of the kind are
\* equal (address; cname; text; exchange and preference; target, port,
\* priority and weight; ns), whatever id, ttl, comment and disabled; for
\* another kind it is true iff the comments are equal.  It is reflexive,
\* symmetric and transitive.
C30_SemanticMatcher ==
  \A k \in DOMAIN cases :
    /\ \A j \in 1..k :
         LET a == cases[j].record
             b == cases[k].record
         IN /\ (a.Name # b.Name \/ a.Type # b.Type) => ~Matched(j, k)
            /\ (a.Name = b.Name /\ a.Type = b.Type) =>
                 (Matched(j, k) <=> KindFields(a) = KindFields(b))
            /\ (a.Name = b.Name /\ a.Type = b.Type /\ a.Type \notin SupportedTypes) =>
                 (Matched(j, k) <=> a.Comment = b.Comment)
            /\ cases[k].matches[j].back = cases[k].matches[j].fwd
    /\ Matched(k, k)
    /\ \A j \in 1..k : \A h \in 1..j :
         /\ (Matched(h, j) /\ Matched(j, k)) => Matched(h, k)
         /\ (Matched(h, k) /\ Matched(j, k)) => Matched(h, j)
         /\ (Matched(h, j) /\ Matched(h, k)) => Matched(j, k)

\* C30 witness: two MX records that differ in id, ttl and comment match, and
\* a third with the same exchange and another preference matches neither.
C30_Witness ==
  /\ Len(cases) = 3
  /\ cases[1].record.Type = "MX" /\ cases[2].record.Type = "MX"
  /\ cases[3].record.Type = "MX"
  /\ cases[1].record.ID # cases[2].record.ID
  /\ cases[1].record.TTL # cases[2].record.TTL
  /\ cases[1].record.Comment # cases[2].record.Comment
  /\ cases[3].record.MXExchange = cases[1].record.MXExchange
  /\ cases[3].record.MXPreference # cases[1].record.MXPreference
  /\ Matched(1, 2) /\ ~Matched(1, 3) /\ ~Matched(2, 3)

\* C31: a failed DELETE is never suppressed.  A DeleteDNSRecords invocation
\* one of whose DELETE calls failed, be it for a record that is gone since
\* the read, has returned an error with that call as its last; so an
\* invocation that returned no error has had no call fail: it has made the
\* initial read and a re-fetch for every candidate but the first, and a
\* candidate it made no DELETE call for is one its re-fetch did not hold.
C31_DeleteErrorSurfaced ==
  \A p \in Threads :
    /\ \A k \in DOMAIN trace[p] :
         (op[p] = "delete" /\ trace[p][k].op = "DELETE" /\ ~trace[p][k].ok) =>
           /\ pc[p] = "done" /\ err[p]
           /\ k = Len(trace[p])
    /\ (Returned(p, "delete") /\ ~err[p]) =>
         /\ \A k \in DOMAIN trace[p] : trace[p][k].ok
         /\ Len(recordsToDelete[p]) >= 1 =>
              /\ Cardinality(Made(p, "GET")) = Len(recordsToDelete[p])
              /\ Deleted(p) = Cardinality(Made(p, "DELETE"))

\* C31 witness: an invocation has returned an error for a DELETE call with
\* an id that no record of the store has any more, the delete of the other
\* client having removed the record after the read.
C31_Witness ==
  \E p, q \in Threads :
    /\ Returned(p, "delete") /\ err[p]
    /\ LastCall(p).op = "DELETE" /\ ~LastCall(p).ok
    /\ ~\E r \in store : r.ID = LastCall(p).rec.ID
    /\ clientOf[q] # clientOf[p] /\ op[q] = "delete" /\ Deleted(q) >= 1

\* C32: an empty target never matches.  When the endpoint lists targets, no
\* record for which getRecordTarget gives the empty string (its target
\* field is not set, or its kind is not one the client knows) is a
\* candidate of DeleteDNSRecords, also when the empty string is one of the
\* targets of the endpoint; so no DELETE call is made for such a record.
C32_EmptyTargetNeverMatches ==
  \A p \in Threads :
    (op[p] = "delete" /\ Len(ep[p].Targets) > 0) =>
      /\ \A k \in DOMAIN recordsToDelete[p] :
           getRecordTarget(recordsToDelete[p][k]) # EmptyStr
      /\ \A k \in DOMAIN trace[p] :
           trace[p][k].op = "DELETE" => getRecordTarget(trace[p][k].rec) # EmptyStr

\* C32 witness: a delete whose targets include the empty string has found a
\* candidate, and the store holds an owned record of the name and kind whose
\* target is empty and which is not one.
C32_Witness ==
  \E p \in Threads : \E r \in store :
    /\ op[p] = "delete" /\ EmptyStr \in Range(ep[p].Targets)
    /\ Len(recordsToDelete[p]) >= 1
    /\ OwnedOfKind(r, ep[p]) /\ getRecordTarget(r) = EmptyStr
    /\ \A k \in DOMAIN recordsToDelete[p] : recordsToDelete[p][k].ID # r.ID

\* a record of a response that the endpoint selects: owned, of its name and
\* kind, and with a target that getRecordTarget finds among its targets when
\* it lists targets
Selected(r, e) ==
  /\ OwnedOfKind(r, e)
  /\ Len(e.Targets) > 0 =>
       (getRecordTarget(r) # EmptyStr /\ getRecordTarget(r) \in Range(e.Targets))

Contents(list) == {Content(list[k]) : k \in DOMAIN list}

\* C34: a delete of several records is not atomic.  The store loses at most
\* one record in a step, a GetDNSRecordsByName call is never held up by a
\* delete in progress and returns what the store holds at that moment, and
\* a delete that ends with an error has made no call that puts a removed
\* record back and has removed fewer records than it had candidates.
C34_DeleteNotAtomic ==
  /\ [][ /\ Cardinality(store') >= Cardinality(store) - 1
         /\ \A q \in Threads :
              (op'[q] = "get" /\ pc'[q] = "done" /\ pc[q] = "idle" /\ ~err'[q]) =>
                Records(got'[q]) =
                  serverRead(store, ep'[q].DNSName, DefaultComment, honoursQuery) ]_vars
  /\ [](\A q \in Threads :
          (NoneReturning /\ HasClient(q) /\ pc[q] = "idle" /\ IsNext(q, "get"))
            => ENABLED GetRecords(q))
  /\ [](\A p \in Threads :
          (Returned(p, "delete") /\ err[p]) =>
            /\ \A k \in DOMAIN trace[p] : trace[p][k].op \in {"GET", "DELETE"}
            /\ Len(recordsToDelete[p]) >= 1 => Deleted(p) < Len(recordsToDelete[p]))

\* C34 witness: while a delete with two candidates is between its DELETE
\* calls, a GetDNSRecordsByName call of another goroutine of the client has
\* returned one of the candidates and not the other, which the delete has
\* removed.
C34_Witness ==
  \E p, q \in Threads :
    /\ p # q /\ clientOf[p] = clientOf[q]
    /\ InDelete(p) /\ Len(recordsToDelete[p]) = 2 /\ Deleted(p) = 1
    /\ Returned(q, "get") /\ ~err[q]
    /\ \E j, k \in DOMAIN recordsToDelete[p] :
         /\ Content(recordsToDelete[p][j]) \in Contents(got[q])
         /\ Content(recordsToDelete[p][k]) \notin Contents(got[q])
         /\ Content(recordsToDelete[p][k]) \in Removed(p)

\* C34 witness of the other half: a delete with two candidates has ended
\* with an error after one DELETE call succeeded, and the store holds one of
\* the two candidates and not the other.
C34_WitnessAborted ==
  \E p \in Threads :
    /\ Returned(p, "delete") /\ err[p]
    /\ Len(recordsToDelete[p]) = 2 /\ Deleted(p) = 1
    /\ \E j, k \in DOMAIN recordsToDelete[p] :
         /\ \E r \in store : Content(r) = Content(recordsToDelete[p][j])
         /\ ~\E r \in store : Content(r) = Content(recordsToDelete[p][k])

\* C35: delete terminates and the lock is live.  Inside an invocation the
\* index of the loop only goes up, by one, and never beyond the number of
\* candidates; and under fair scheduling with every remote call returning, a
\* DeleteDNSRecords call waiting at Lock gets the mutex and every call that
\* was started returns.
C35_DeleteTerminates ==
  /\ [][ \A p \in Threads :
          (op[p] = "delete" /\ op'[p] = "delete") =>
            \/ i'[p] = i[p]
            \/ i'[p] = i[p] + 1 /\ i'[p] <= Len(recordsToDelete'[p]) ]_vars
  /\ \A p \in Threads : (pc[p] = "lock") ~> (deleteMutex[clientOf[p]] = p)
  /\ \A p \in Threads : (pc[p] = "lock" \/ InDelete(p)) ~> Returned(p, "delete")

\* C35 witness: a DeleteDNSRecords call, the second call of its goroutine,
\* waits at Lock while the delete of another goroutine, which holds the
\* mutex, is between the DELETE calls for its two candidates.
C35_Witness ==
  \E p, q \in Threads :
    /\ p # q /\ clientOf[p] = clientOf[q]
    /\ pc[q] = "lock" /\ hist[q] # <<>>
    /\ deleteMutex[clientOf[p]] = p /\ pc[p] = "loop"
    /\ Len(recordsToDelete[p]) = 2 /\ Deleted(p) = 1

\* the records the store has removed for the DELETE calls of the running
\* operation of p, each with the id it had
Gone(p) ==
  {[trace[p][k].hit EXCEPT !.ID = trace[p][k].rec.ID] : k \in Succeeded(p, "DELETE")}

\* C36: equivalence with the naive loop on stable ids.  On a store that
\* never renumbers and with one goroutine, a delete that returned no error
\* has made one successful DELETE call per candidate, the ids it deleted are
\* the ids of the candidates of the initial fetch, and the store is what the
\* loop over the captured ids leaves of the store of the initial fetch.
C36_NaiveEquivalence ==
  \A p \in Threads :
    (stableIds /\ Returned(p, "delete") /\ ~err[p]) =>
      /\ Deleted(p) = Len(recordsToDelete[p])
      /\ {trace[p][k].rec.ID : k \in Succeeded(p, "DELETE")} =
           {recordsToDelete[p][k].ID : k \in DOMAIN recordsToDelete[p]}
      /\ Gone(p) = Records(recordsToDelete[p])
      /\ store = naiveDelete(store \cup Gone(p), recordsToDelete[p])

\* C36 witness: on a store with stable ids a delete has returned after
\* deleting two candidates, the second one found by a re-fetch, and the
\* store still holds a record.
C36_Witness ==
  \E p \in Threads :
    /\ stableIds /\ Returned(p, "delete") /\ ~err[p]
    /\ Len(recordsToDelete[p]) = 2 /\ Deleted(p) = 2
    /\ Cardinality(Made(p, "GET")) = 2
    /\ store # {}

====
